---- MODULE Spec2Model ----
(***************************************************************************)
(* Model of the diff-to-slide pipeline of obsidian-git-slide-import:       *)
(* the unified-diff parser, the content formatter, the template engine,    *)
(* the commit-message splitter and the slide generator.                    *)
(*                                                                         *)
(* A JavaScript string is modelled as a sequence of one-character strings. *)
(* Three characters cannot be written inside a TLA+ string literal and are *)
(* named instead: "BT" is the backtick, "BSL" the backslash and "BULLET"   *)
(* the bullet U+2022 of the default templates.                             *)
(***************************************************************************)
EXTENDS Integers, Sequences, FiniteSets, TLC

VARIABLES
    pc,               \* which step of the component under check has run
    diffItems,        \* what the diff tool emitted, line by line (kinds)
    diffText,         \* the unified-diff text handed to parseDiffHunks
    hunks,            \* DiffHunk[] returned by parseDiffHunks
    includeRemoved,   \* generateCodeBlock: lineChangeDisplay !== 'additions-only'
    content,          \* text returned by formatDiffContent
    addedLines,       \* addedLineNumbers collected by calculateDiffHighlights
    codeBody,         \* createSafeCodeBlock: content
    codeBlock,        \* createSafeCodeBlock: the fenced block returned
    template,         \* renderTemplate: template
    templateVars,     \* renderTemplate: vars (own properties of the object)
    rendered,         \* renderTemplate: the text returned, or Thrown
    message,          \* parseCommitMessage: message
    parsed,           \* parseCommitMessage: { title, body } returned
    formatOptions,    \* SlideGenerator: this.options
    commits,          \* generateSlides: commits, oldest first
    fileDiffs,        \* generateSlides: fileDiffs, commit hash -> GitFileDiff[]
    markdown,         \* generateSlides: the text returned
    inputNumbers,     \* compressToRanges: lineNumbers
    rangeTokens,      \* compressToRanges: the tokens returned
    highlightHunks,   \* generateHighlightString: hunks
    modeOfHighlights, \* generateHighlightString: mode
    highlightString,  \* generateHighlightString: the text returned
    inputText,        \* deindent: text
    deindented,       \* deindent: the text returned
    commitDiffs,      \* getFileVariables: allDiffs, the diffs of one commit
    fileSummaries,    \* getFileVariables: fileSummary, for each diff of allDiffs
    logOutput,        \* GitService: what git log prints for the filter
    fileRegex,        \* CommitFilter.fileRegex, NullString when unset
    returnedCommits,  \* what getCommits resolves to, or Rejected
    includePattern,   \* GitImportModal / GitImportView: includePattern
    excludePattern,   \* GitImportModal / GitImportView: excludePattern
    currentFiles,     \* loadFilesForCommit: this.currentFiles
    repositoryState,  \* "closed" (gitService is null), "branches" and "commits"
                      \* (openRepository / loadCommits awaiting the backend), "ready"
    loadedCommits,    \* GitImportModal: commits, as their hashes
    commitChecked,    \* the checkboxes of the commit list: hash -> checked
    selectedCommitHashes, \* GitImportModal: selectedCommitHashes
    selectedFiles,    \* GitImportModal: selectedFiles, hash -> the Set object it maps to
    fileSets,         \* the Set objects created so far, each its list of entries
    displayedFiles,   \* the file list on screen: its commit, the Set its handlers
                      \* captured, and its checkboxes path -> checked
    previewOptions,   \* formatOptions: contextLines, showFullFile, slideOrganization
    previewCache,     \* GitImportModal: previewCache, key -> the array object it maps to
    diffArrays,       \* the GitFileDiff[] objects created so far
    isGeneratingPreview, \* GitImportModal: isGeneratingPreview
    debouncePending,  \* the timer of debouncedUpdatePreview is running
    passes,           \* the invocations of generatePreview suspended in an await
    panes,            \* what the two preview panes show
    userActions,      \* the number of actions the user has taken
    fetchedSinceClear, \* the fetches called since previewCache was last cleared that
                      \* succeeded, and the passes whose fetch was called before
    fetchedTwice,     \* one of them succeeded a second time
    changedInFlight   \* the selection or an option changed during the pass last started

diffVars == <<diffItems, diffText, hunks, includeRemoved, content, addedLines>>
fenceVars == <<codeBody, codeBlock>>
templateEngineVars == <<template, templateVars, rendered>>
messageVars == <<message, parsed>>
generatorVars == <<formatOptions, commits, fileDiffs, markdown>>
rangeVars == <<inputNumbers, rangeTokens, highlightHunks, modeOfHighlights, highlightString>>
deindentVars == <<inputText, deindented>>
summaryVars == <<commitDiffs, fileSummaries>>
utilityVars == <<rangeVars, deindentVars, summaryVars>>
serviceVars == <<logOutput, fileRegex, returnedCommits, includePattern, excludePattern,
                 currentFiles>>
modalVars == <<repositoryState, loadedCommits, commitChecked, selectedCommitHashes,
               selectedFiles, fileSets, displayedFiles, previewOptions, previewCache,
               diffArrays, isGeneratingPreview, debouncePending, passes, panes, userActions,
               fetchedSinceClear, fetchedTwice, changedInFlight>>
appVars == <<serviceVars, modalVars>>
vars == <<pc, diffVars, fenceVars, templateEngineVars, messageVars, generatorVars,
          utilityVars, appVars>>

\* the variables of the other components, for each component
notDiffVars == <<fenceVars, templateEngineVars, messageVars, generatorVars,
                 utilityVars, appVars>>
notFenceVars == <<diffVars, templateEngineVars, messageVars, generatorVars,
                  utilityVars, appVars>>
notTemplateEngineVars == <<diffVars, fenceVars, messageVars, generatorVars,
                           utilityVars, appVars>>
notMessageVars == <<diffVars, fenceVars, templateEngineVars, generatorVars,
                    utilityVars, appVars>>
notGeneratorVars == <<diffVars, fenceVars, templateEngineVars, messageVars,
                      utilityVars, appVars>>
pipelineVars == <<diffVars, fenceVars, templateEngineVars, messageVars, generatorVars>>

\* the values of a component's variables while another component is checked
IdleDiff ==
    /\ diffItems = <<>>
    /\ diffText = <<>>
    /\ hunks = <<>>
    /\ includeRemoved = FALSE
    /\ content = <<>>
    /\ addedLines = <<>>

IdleFence ==
    /\ codeBody = <<>>
    /\ codeBlock = <<>>

IdleTemplate ==
    /\ template = <<>>
    /\ templateVars = <<>>
    /\ rendered = <<>>
IdleMessage ==
    /\ message = <<>>
    /\ parsed = [title |-> <<>>, body |-> <<>>]
IdleGenerator ==
    /\ formatOptions = <<>>
    /\ commits = <<>>
    /\ fileDiffs = <<>>
    /\ markdown = <<>>
IdleRanges ==
    /\ inputNumbers = <<>>
    /\ rangeTokens = <<>>
    /\ highlightHunks = <<>>
    /\ modeOfHighlights = "all"
    /\ highlightString = <<>>
IdleDeindent ==
    /\ inputText = <<>>
    /\ deindented = <<>>
IdleSummary ==
    /\ commitDiffs = <<>>
    /\ fileSummaries = <<>>
IdleUtility == IdleRanges /\ IdleDeindent /\ IdleSummary
IdleService ==
    /\ logOutput = <<>>
    /\ fileRegex = <<>>
    /\ returnedCommits = [outcome |-> "none", value |-> <<>>]
    /\ includePattern = <<>>
    /\ excludePattern = <<>>
    /\ currentFiles = <<>>
IdleModal ==
    /\ repositoryState = "closed"
    /\ loadedCommits = <<>>
    /\ commitChecked = <<>>
    /\ selectedCommitHashes = {}
    /\ selectedFiles = <<>>
    /\ fileSets = <<>>
    /\ displayedFiles = <<>>
    /\ previewOptions = <<>>
    /\ previewCache = <<>>
    /\ diffArrays = <<>>
    /\ isGeneratingPreview = FALSE
    /\ debouncePending = FALSE
    /\ passes = <<>>
    /\ panes = <<>>
    /\ userActions = 0
    /\ fetchedSinceClear = <<>>
    /\ fetchedTwice = FALSE
    /\ changedInFlight = FALSE
IdleApp == IdleService /\ IdleModal
IdlePipeline == IdleDiff /\ IdleFence /\ IdleTemplate /\ IdleMessage /\ IdleGenerator

----------------------------------------------------------------------------
(* Bounds of the model *)

\* longest sequence of diff lines (headers included) the diff tool emits
MaxDiffLines == 4
\* unchanged lines the diff tool leaves out between two hunks
HunkGap == 2
\* longest code body given to createSafeCodeBlock, in characters
MaxBodyLength == 5
\* longest template given to renderTemplate, in pieces (see TemplatePieces)
MaxTemplatePieces == 4
\* longest single-line commit message, in characters
MaxMessageLength == 103
\* most lines of a multi-line commit message
MaxMessageLines == 4
\* most commits of the history that a selection may hold
MaxCommits == 3
\* greatest line number of a list given to compressToRanges
MaxLineNumber == 3
\* longest text given to deindent, in characters
MaxTextLength == 6
\* most files of a commit given to getFileVariables
MaxFiles == 7

----------------------------------------------------------------------------
(* JavaScript string primitives *)

Whitespace == {" ", "\t", "\n", "\r"}
DigitChars == <<"0", "1", "2", "3", "4", "5", "6", "7", "8", "9">>
Digit == {DigitChars[i] : i \in 1..10}

Min(S) == CHOOSE x \in S : \A y \in S : x <= y
Max(S) == CHOOSE x \in S : \A y \in S : x >= y

\* String.prototype.startsWith
StartsWith(s, p) == Len(s) >= Len(p) /\ SubSeq(s, 1, Len(p)) = p

\* String.prototype.indexOf(p, from): 0-based, -1 when p does not occur
IndexOfFrom(s, p, from) ==
    LET hits == {i \in from..(Len(s) - Len(p)) : SubSeq(s, i + 1, i + Len(p)) = p}
    IN IF hits = {} THEN -1 ELSE Min(hits)

IndexOf(s, p) == IndexOfFrom(s, p, 0)

\* String.prototype.slice(a, b) and slice(a), 0-based, for 0 <= a
Slice(s, a, b) == SubSeq(s, a + 1, IF b > Len(s) THEN Len(s) ELSE b)
SliceFrom(s, a) == SubSeq(s, a + 1, Len(s))

\* String.prototype.trimEnd, trimStart, trim
TrimEnd(s) ==
    LET keep == {i \in 1..Len(s) : s[i] \notin Whitespace}
    IN IF keep = {} THEN <<>> ELSE SubSeq(s, 1, Max(keep))

TrimStart(s) ==
    LET keep == {i \in 1..Len(s) : s[i] \notin Whitespace}
    IN IF keep = {} THEN <<>> ELSE SubSeq(s, Min(keep), Len(s))

Trim(s) == TrimStart(TrimEnd(s))

\* the concatenation of a sequence of sequences: of strings, or of arrays
\* (push(...items))
RECURSIVE Concat(_)
Concat(pieces) == IF Len(pieces) = 0 THEN <<>> ELSE pieces[1] \o Concat(Tail(pieces))

\* String.prototype.split('\n')
RECURSIVE SplitLines(_)
SplitLines(s) ==
    LET i == IndexOf(s, <<"\n">>)
    IN IF i = -1 THEN <<s>>
       ELSE <<Slice(s, 0, i)>> \o SplitLines(SliceFrom(s, i + 1))

\* Array.prototype.join(sep)
RECURSIVE Join(_, _)
Join(parts, sep) ==
    IF Len(parts) = 0 THEN <<>>
    ELSE IF Len(parts) = 1 THEN parts[1]
    ELSE parts[1] \o sep \o Join(Tail(parts), sep)

\* parseInt of a non-empty run of decimal digits
DigitValue(c) == (CHOOSE i \in 1..10 : DigitChars[i] = c) - 1

RECURSIVE ParseInt(_)
ParseInt(ds) ==
    IF Len(ds) = 0 THEN 0
    ELSE 10 * ParseInt(SubSeq(ds, 1, Len(ds) - 1)) + DigitValue(ds[Len(ds)])

\* String(n) / template-literal formatting of an integer
RECURSIVE NumberToString(_)
NumberToString(n) ==
    IF n < 0 THEN <<"-">> \o NumberToString(0 - n)
    ELSE IF n < 10 THEN <<DigitChars[n + 1]>>
    ELSE NumberToString(n \div 10) \o <<DigitChars[(n % 10) + 1]>>

----------------------------------------------------------------------------
(* Diff parser: parseDiffHunks *)

\* JavaScript null in oldLineNumber / newLineNumber and in a regex group
Null == -1
NoMatch == [matched |-> FALSE]
\* currentHunk = null
NoHunk == [open |-> FALSE]

\* index of the last character of the run of digits starting at position i
\* (1-based); i - 1 when s[i] is no digit
DigitsEnd(s, i) ==
    LET stop == {j \in i..Len(s) : s[j] \notin Digit}
    IN IF stop = {} THEN Len(s) ELSE Min(stop) - 1

\* one "-(\d+),?(\d*)" or "+(\d+),?(\d*)" part of the header regex, starting
\* at position i; the greedy match is the only one the engine can complete
MatchRange(s, i) ==
    LET e1 == DigitsEnd(s, i)
        i2 == IF e1 + 1 <= Len(s) /\ s[e1 + 1] = "," THEN e1 + 2 ELSE e1 + 1
        e2 == DigitsEnd(s, i2)
    IN IF e1 < i THEN NoMatch
       ELSE [matched |-> TRUE, start |-> SubSeq(s, i, e1),
             count |-> SubSeq(s, i2, e2), next |-> e2 + 1]

\* line.match(/^@@ -(\d+),?(\d*) \+(\d+),?(\d*) @@/)
MatchHunkHeader(line) ==
    IF ~StartsWith(line, <<"@", "@", " ", "-">>) THEN NoMatch
    ELSE LET old == MatchRange(line, 5)
         IN IF ~old.matched THEN NoMatch
            ELSE IF ~StartsWith(SliceFrom(line, old.next - 1), <<" ", "+">>) THEN NoMatch
            ELSE LET new == MatchRange(line, old.next + 2)
                 IN IF ~new.matched THEN NoMatch
                    ELSE IF ~StartsWith(SliceFrom(line, new.next - 1), <<" ", "@", "@">>)
                         THEN NoMatch
                    ELSE [matched |-> TRUE,
                          g1 |-> old.start, g2 |-> old.count,
                          g3 |-> new.start, g4 |-> new.count]

\* parseInt(hunkMatch[2] || '1')
CountOrOne(group) == IF group = <<>> THEN 1 ELSE ParseInt(group)

\* the hunk opened by a header line
NewHunk(m) ==
    [oldStart |-> ParseInt(m.g1), oldLines |-> CountOrOne(m.g2),
     newStart |-> ParseInt(m.g3), newLines |-> CountOrOne(m.g4),
     addedLineNumbers |-> <<>>, removedLineNumbers |-> <<>>, lines |-> <<>>]

\* "Skip diff metadata lines"
IsMetadataLine(line) ==
    \/ StartsWith(line, <<"d", "i", "f", "f", " ">>)
    \/ StartsWith(line, <<"i", "n", "d", "e", "x", " ">>)
    \/ StartsWith(line, <<"-", "-", "-", " ">>)
    \/ StartsWith(line, <<"+", "+", "+", " ">>)
    \/ StartsWith(line, <<"B", "i", "n", "a", "r", "y", " ">>)

\* a faulty variant of ParseContentLine: a removed line advances the
\* post-image counter as well
ParseContentLineRemovedAdvancesNew(st, line) ==
    LET h == st.currentHunk
    IN IF StartsWith(line, <<"+">>) THEN
           [st EXCEPT
              !.currentHunk = [h EXCEPT
                  !.addedLineNumbers = Append(@, st.newLineNum),
                  !.lines = Append(@, [type |-> "added", content |-> SliceFrom(line, 1),
                                       oldLineNumber |-> Null,
                                       newLineNumber |-> st.newLineNum])],
              !.newLineNum = @ + 1]
       ELSE IF StartsWith(line, <<"-">>) THEN
           [st EXCEPT
              !.currentHunk = [h EXCEPT
                  !.removedLineNumbers = Append(@, st.oldLineNum),
                  !.lines = Append(@, [type |-> "removed", content |-> SliceFrom(line, 1),
                                       oldLineNumber |-> st.oldLineNum,
                                       newLineNumber |-> Null])],
              !.oldLineNum = @ + 1,
              !.newLineNum = @ + 1]
       ELSE IF StartsWith(line, <<" ">>) \/ line = <<>> THEN
           [st EXCEPT
              !.currentHunk = [h EXCEPT
                  !.lines = Append(@, [type |-> "context",
                                       content |-> IF StartsWith(line, <<" ">>)
                                                   THEN SliceFrom(line, 1) ELSE line,
                                       oldLineNumber |-> st.oldLineNum,
                                       newLineNumber |-> st.newLineNum])],
              !.oldLineNum = @ + 1,
              !.newLineNum = @ + 1]
       ELSE st

\* "Parse content lines": the effect of one content line on the open hunk
\* and on the two counters
ParseContentLine(st, line) ==
    LET h == st.currentHunk
    IN IF StartsWith(line, <<"+">>) THEN
           [st EXCEPT
              !.currentHunk = [h EXCEPT
                  !.addedLineNumbers = Append(@, st.newLineNum),
                  !.lines = Append(@, [type |-> "added", content |-> SliceFrom(line, 1),
                                       oldLineNumber |-> Null,
                                       newLineNumber |-> st.newLineNum])],
              !.newLineNum = @ + 1]
       ELSE IF StartsWith(line, <<"-">>) THEN
           [st EXCEPT
              !.currentHunk = [h EXCEPT
                  !.removedLineNumbers = Append(@, st.oldLineNum),
                  !.lines = Append(@, [type |-> "removed", content |-> SliceFrom(line, 1),
                                       oldLineNumber |-> st.oldLineNum,
                                       newLineNumber |-> Null])],
              !.oldLineNum = @ + 1]
       ELSE IF StartsWith(line, <<" ">>) \/ line = <<>> THEN
           [st EXCEPT
              !.currentHunk = [h EXCEPT
                  !.lines = Append(@, [type |-> "context",
                                       content |-> IF StartsWith(line, <<" ">>)
                                                   THEN SliceFrom(line, 1) ELSE line,
                                       oldLineNumber |-> st.oldLineNum,
                                       newLineNumber |-> st.newLineNum])],
              !.oldLineNum = @ + 1,
              !.newLineNum = @ + 1]
       ELSE st

\* the body of "for (const line of lines)"
ParseLine(st, line) ==
    LET m == MatchHunkHeader(line)
    IN IF m.matched THEN
           [hunks |-> IF st.currentHunk # NoHunk
                      THEN Append(st.hunks, st.currentHunk) ELSE st.hunks,
            currentHunk |-> NewHunk(m),
            oldLineNum |-> ParseInt(m.g1),
            newLineNum |-> ParseInt(m.g3)]
       ELSE IF st.currentHunk = NoHunk THEN st
       ELSE IF IsMetadataLine(line) THEN st
       ELSE ParseContentLine(st, line)

RECURSIVE ParseLoop(_, _, _)
ParseLoop(lines, i, st) ==
    IF i > Len(lines) THEN st ELSE ParseLoop(lines, i + 1, ParseLine(st, lines[i]))

parseDiffHunks(diffOutput) ==
    LET st == ParseLoop(SplitLines(diffOutput), 1,
                        [hunks |-> <<>>, currentHunk |-> NoHunk,
                         oldLineNum |-> 0, newLineNum |-> 0])
    IN IF st.currentHunk # NoHunk THEN Append(st.hunks, st.currentHunk) ELSE st.hunks

----------------------------------------------------------------------------
(* Range compressor and content formatter *)

\* [...lineNumbers].sort((a, b) => a - b)
RECURSIVE InsertSorted(_, _)
InsertSorted(sorted, x) ==
    IF Len(sorted) = 0 THEN <<x>>
    ELSE IF x < sorted[1] THEN <<x>> \o sorted
    ELSE <<sorted[1]>> \o InsertSorted(Tail(sorted), x)

RECURSIVE SortAscending(_)
SortAscending(numbers) ==
    IF Len(numbers) = 0 THEN <<>>
    ELSE InsertSorted(SortAscending(SubSeq(numbers, 1, Len(numbers) - 1)),
                      numbers[Len(numbers)])

\* start === end ? `${start}` : `${start}-${end}`
RangeToken(start, end) ==
    IF start = end THEN NumberToString(start)
    ELSE NumberToString(start) \o <<"-">> \o NumberToString(end)

\* the loop of compressToRanges over sorted[i], i >= 1 (0-based), and the
\* final push
RECURSIVE CompressLoop(_, _, _, _, _)
CompressLoop(sorted, i, start, end, ranges) ==
    IF i >= Len(sorted) THEN Append(ranges, RangeToken(start, end))
    ELSE LET current == sorted[i + 1]
         IN IF current = end + 1
            THEN CompressLoop(sorted, i + 1, start, current, ranges)
            ELSE CompressLoop(sorted, i + 1, current, current,
                              Append(ranges, RangeToken(start, end)))

\* compressToRanges without the sort: the loop runs over lineNumbers as given
compressToRangesInGivenOrder(lineNumbers) ==
    IF Len(lineNumbers) = 0 THEN <<>>
    ELSE CompressLoop(lineNumbers, 1, lineNumbers[1], lineNumbers[1], <<>>)

compressToRanges(lineNumbers) ==
    IF Len(lineNumbers) = 0 THEN <<>>
    ELSE LET sorted == SortAscending(lineNumbers)
         IN CompressLoop(sorted, 1, sorted[1], sorted[1], <<>>)

\* line.match(/^(\s*)/)[1].length
LeadingWhitespace(line) ==
    LET stop == {j \in 1..Len(line) : line[j] \notin Whitespace}
    IN IF stop = {} THEN Len(line) ELSE Min(stop) - 1

\* minIndent with only the empty lines skipped (line === '' for line.trim() === '')
MinIndentSkippingEmptyLines(lines) ==
    LET indents == {LeadingWhitespace(lines[i]) :
                        i \in {j \in 1..Len(lines) : lines[j] # <<>>}}
    IN IF indents = {} THEN Null ELSE Min(indents)

\* minIndent of deindent: Infinity is modelled as Null
MinIndent(lines) ==
    LET indents == {LeadingWhitespace(lines[i]) :
                        i \in {j \in 1..Len(lines) : Trim(lines[j]) # <<>>}}
    IN IF indents = {} THEN Null ELSE Min(indents)

\* deindent with the strip applied to the non-blank lines only
deindentOfNonBlankLines(text) ==
    LET lines == SplitLines(text)
        minIndent == MinIndent(lines)
    IN IF minIndent = Null \/ minIndent = 0 THEN text
       ELSE Join([i \in 1..Len(lines) |->
                     IF Trim(lines[i]) = <<>> THEN lines[i]
                     ELSE SliceFrom(lines[i], minIndent)], <<"\n">>)

deindent(text) ==
    LET lines == SplitLines(text)
        minIndent == MinIndent(lines)
    IN IF minIndent = Null \/ minIndent = 0 THEN text
       ELSE Join([i \in 1..Len(lines) |-> SliceFrom(lines[i], minIndent)], <<"\n">>)

\* "// ..." pushed between two hunks
HunkSeparator == <<"/", "/", " ", ".", ".", ".">>

\* outputLines of formatDiffContent for one hunk
RECURSIVE HunkOutputLines(_, _, _)
HunkOutputLines(lines, i, inclRemoved) ==
    IF i > Len(lines) THEN <<>>
    ELSE IF lines[i].type = "removed" /\ ~inclRemoved
         THEN HunkOutputLines(lines, i + 1, inclRemoved)
    ELSE <<lines[i].content>> \o HunkOutputLines(lines, i + 1, inclRemoved)

\* outputLines of formatDiffContent; i is the 0-based hunk index
RECURSIVE OutputLines(_, _, _)
OutputLines(hs, i, inclRemoved) ==
    IF i >= Len(hs) THEN <<>>
    ELSE HunkOutputLines(hs[i + 1].lines, 1, inclRemoved)
         \o (IF i < Len(hs) - 1 THEN <<HunkSeparator>> ELSE <<>>)
         \o OutputLines(hs, i + 1, inclRemoved)

formatDiffContent(hs, inclRemoved) ==
    deindent(Join(OutputLines(hs, 0, inclRemoved), <<"\n">>))

----------------------------------------------------------------------------
(* Slide generator: highlight positions of diff-extracted content *)

\* "for (const line of hunk.lines)" of calculateDiffHighlights
RECURSIVE HighlightHunkLines(_, _, _, _)
HighlightHunkLines(lines, i, st, inclRemoved) ==
    IF i > Len(lines) THEN st
    ELSE IF lines[i].type = "removed" /\ ~inclRemoved
         THEN HighlightHunkLines(lines, i + 1, st, inclRemoved)
    ELSE HighlightHunkLines(lines, i + 1,
            [currentLine |-> st.currentLine + 1,
             addedLineNumbers |-> IF lines[i].type = "added"
                                  THEN Append(st.addedLineNumbers, st.currentLine)
                                  ELSE st.addedLineNumbers],
            inclRemoved)

\* a faulty variant of HighlightHunks: the "// ..." separator line is not
\* counted
RECURSIVE HighlightHunksNoSeparator(_, _, _, _)
HighlightHunksNoSeparator(hs, hunkIdx, st, inclRemoved) ==
    IF hunkIdx >= Len(hs) THEN st
    ELSE HighlightHunksNoSeparator(hs, hunkIdx + 1,
            HighlightHunkLines(hs[hunkIdx + 1].lines, 1, st, inclRemoved),
            inclRemoved)

\* the hunk loop of calculateDiffHighlights; hunkIdx is 0-based
RECURSIVE HighlightHunks(_, _, _, _)
HighlightHunks(hs, hunkIdx, st, inclRemoved) ==
    IF hunkIdx >= Len(hs) THEN st
    ELSE LET after == HighlightHunkLines(hs[hunkIdx + 1].lines, 1, st, inclRemoved)
         IN HighlightHunks(hs, hunkIdx + 1,
                IF hunkIdx < Len(hs) - 1
                THEN [after EXCEPT !.currentLine = @ + 1]
                ELSE after,
                inclRemoved)

\* addedLineNumbers as calculateDiffHighlights has collected it after its loops
CollectAddedLines(hs, inclRemoved) ==
    HighlightHunks(hs, 0, [currentLine |-> 1, addedLineNumbers |-> <<>>],
                   inclRemoved).addedLineNumbers

\* SlideGenerator.compressToRanges: the private copy of compressToRanges
compressToRangesOfGenerator(lineNumbers) == compressToRanges(lineNumbers)

HighlightSeparator(highlightMode) ==
    IF highlightMode = "stepped" THEN <<"|">> ELSE <<",">>

calculateDiffHighlights(hs, inclRemoved, highlightMode) ==
    LET collected == CollectAddedLines(hs, inclRemoved)
    IN IF Len(collected) = 0 THEN <<>>
       ELSE Join(compressToRangesOfGenerator(collected),
                 HighlightSeparator(highlightMode))

----------------------------------------------------------------------------
(* Slide generator: createSafeCodeBlock *)

\* content.match(/`+/g): the lengths of the maximal runs of backticks
BacktickRunLengths(text) ==
    {LET stop == {j \in i..Len(text) : text[j] # "BT"}
     IN (IF stop = {} THEN Len(text) + 1 ELSE Min(stop)) - i :
        i \in {k \in 1..Len(text) : text[k] = "BT" /\ (k = 1 \/ text[k - 1] # "BT")}}

\* '`'.repeat(n)
Backticks(n) == [i \in 1..n |-> "BT"]

\* a faulty variant of createSafeCodeBlock: the fence is as long as the
\* longest run, not one longer
createSafeCodeBlockFenceOfLongestRun(text, langSpec) ==
    LET runs == BacktickRunLengths(text)
        maxBackticks == IF runs = {} THEN 0 ELSE Max(runs)
        fence == Backticks(Max({3, maxBackticks}))
    IN fence \o langSpec \o <<"\n">> \o TrimEnd(text) \o <<"\n">> \o fence

createSafeCodeBlock(text, langSpec) ==
    LET runs == BacktickRunLengths(text)
        maxBackticks == IF runs = {} THEN 0 ELSE Max(runs)
        fenceLength == Max({3, maxBackticks + 1})
        fence == Backticks(fenceLength)
    IN fence \o langSpec \o <<"\n">> \o TrimEnd(text) \o <<"\n">> \o fence

----------------------------------------------------------------------------
(* Template engine: renderTemplate *)

\* \w of a regular expression
WordChar ==
    {"a", "b", "c", "d", "e", "f", "g", "h", "i", "j", "k", "l", "m", "n", "o", "p", "q",
     "r", "s", "t", "u", "v", "w", "x", "y", "z",
     "A", "B", "C", "D", "E", "F", "G", "H", "I", "J", "K", "L", "M", "N", "O", "P", "Q",
     "R", "S", "T", "U", "V", "W", "X", "Y", "Z", "_"} \cup Digit

\* what a callback of renderTemplate leaves behind when it throws
Thrown == <<"TypeError">>

\* members every object literal inherits from Object.prototype: vars[name]
\* finds them when vars has no own property of that name
ObjectPrototypeMembers == {<<"c", "o", "n", "s", "t", "r", "u", "c", "t", "o", "r">>}

\* String(Object), what String.prototype.replace inserts when the callback
\* returns the inherited constructor
FunctionText ==
    <<"f", "u", "n", "c", "t", "i", "o", "n", " ", "O", "b", "j", "e", "c", "t", "(", ")",
      " ", "{", " ", "[", "n", "a", "t", "i", "v", "e", " ", "c", "o", "d", "e", "]", " ", "}">>

\* vars[varName]
Lookup(variables, varName) ==
    IF varName \in DOMAIN variables
    THEN [kind |-> "string", value |-> variables[varName]]
    ELSE IF varName \in ObjectPrototypeMembers THEN [kind |-> "function"]
    ELSE [kind |-> "undefined"]

\* [ \t]* removed from both ends of a line
StripBlanks(line) ==
    LET keep == {i \in 1..Len(line) : line[i] \notin {" ", "\t"}}
    IN IF keep = {} THEN <<>> ELSE SubSeq(line, Min(keep), Max(keep))

\* the name when text starts with a placeholder {{\w+}}, <<>> otherwise
PlaceholderNameAt(text) ==
    IF ~StartsWith(text, <<"{", "{">>) THEN <<>>
    ELSE LET stop == {j \in 3..Len(text) : text[j] \notin WordChar}
             e == IF stop = {} THEN Len(text) ELSE Min(stop) - 1
         IN IF e >= 3 /\ StartsWith(SliceFrom(text, e), <<"}", "}">>)
            THEN SubSeq(text, 3, e) ELSE <<>>

\* the name when the line matches /^[ \t]*\{\{(\w+)\}\}[ \t]*$/, <<>> otherwise
OwnLinePlaceholder(line) ==
    LET core == StripBlanks(line)
        name == PlaceholderNameAt(core)
    IN IF name # <<>> /\ Len(core) = Len(name) + 4 THEN name ELSE <<>>

\* callback of the first replace: vars[varName]?.trim() ?? ''
OwnLineValue(variables, varName) ==
    LET v == Lookup(variables, varName)
    IN CASE v.kind = "string" -> Trim(v.value)
         [] v.kind = "undefined" -> <<>>
         \* a function has no trim: the call throws a TypeError
         [] v.kind = "function" -> Thrown

\* callback of the second replace: vars[varName] ?? ''
InlineValue(variables, varName) ==
    LET v == Lookup(variables, varName)
    IN CASE v.kind = "string" -> v.value
         [] v.kind = "undefined" -> <<>>
         [] v.kind = "function" -> FunctionText

\* first replace, /^[ \t]*\{\{(\w+)\}\}[ \t]*$/gm, over the lines of the text
OwnLinesReplaced(lines, variables) ==
    LET names == [i \in 1..Len(lines) |-> OwnLinePlaceholder(lines[i])]
        out == [i \in 1..Len(lines) |->
                   IF names[i] = <<>> THEN lines[i] ELSE OwnLineValue(variables, names[i])]
    IN IF \E i \in 1..Len(lines) : names[i] # <<>> /\ out[i] = Thrown
       THEN Thrown ELSE Join(out, <<"\n">>)

ReplaceOwnLines(text, variables) == OwnLinesReplaced(SplitLines(text), variables)

\* second replace, /\{\{(\w+)\}\}/g: one scan from left to right; what a
\* replacement inserts is not scanned again
RECURSIVE ReplaceInline(_, _)
ReplaceInline(text, variables) ==
    LET starts == {i \in 1..Len(text) : PlaceholderNameAt(SubSeq(text, i, Len(text))) # <<>>}
    IN IF starts = {} THEN text
       ELSE LET i == Min(starts)
                name == PlaceholderNameAt(SubSeq(text, i, Len(text)))
            IN SubSeq(text, 1, i - 1) \o InlineValue(variables, name)
               \o ReplaceInline(SubSeq(text, i + Len(name) + 4, Len(text)), variables)

\* replace(/\n{3,}/g, '\n\n')
RECURSIVE CollapseBlankLines(_)
CollapseBlankLines(text) ==
    LET i == IndexOf(text, <<"\n", "\n", "\n">>)
    IN IF i = -1 THEN text
       ELSE LET stop == {j \in (i + 1)..Len(text) : text[j] # "\n"}
                e == IF stop = {} THEN Len(text) + 1 ELSE Min(stop)
            IN SubSeq(text, 1, i) \o <<"\n", "\n">>
               \o CollapseBlankLines(SubSeq(text, e, Len(text)))

\* the second replace, the clean-up of blank lines and the trim, applied to
\* the result of the first replace unless its callback has thrown
FinishTemplate(afterOwnLines, variables) ==
    IF afterOwnLines = Thrown THEN Thrown
    ELSE Trim(CollapseBlankLines(ReplaceInline(afterOwnLines, variables)))

renderTemplate(templateText, variables) ==
    FinishTemplate(ReplaceOwnLines(templateText, variables), variables)

----------------------------------------------------------------------------
(* Slide generator: parseCommitMessage *)

\* message.length > 72
TitleLengthLimit == 72
\* periodIndex < 100
PeriodIndexLimit == 100

\* index (0-based) of the newline that ends the whitespace run \s* starting
\* at index from, taken greedily: the last newline of the run; -1 when the
\* run holds no newline
LastNewlineOfRun(text, from) ==
    LET stop == {j \in (from + 1)..Len(text) : text[j] \notin Whitespace}
        runEnd == IF stop = {} THEN Len(text) ELSE Min(stop) - 1
        newlines == {j \in (from + 1)..runEnd : text[j] = "\n"}
    IN IF newlines = {} THEN -1 ELSE Max(newlines) - 1

\* a faulty variant of EmptyLineMatch: group 1 may span lines, /^([\s\S]+?)\n\s*\n/
EmptyLineMatchAcrossLines(text) ==
    LET ends == {n \in 1..(Len(text) - 1) :
                    text[n + 1] = "\n" /\ LastNewlineOfRun(text, n + 1) # -1}
    IN IF ends = {} THEN NoMatch
       ELSE LET n == Min(ends)
            IN [matched |-> TRUE,
                title |-> Slice(text, 0, n),
                body |-> SliceFrom(text, LastNewlineOfRun(text, n + 1) + 1)]

\* message.match(/^(.+?)\n\s*\n([\s\S]*)$/): '.' matches no newline, so
\* group 1 is the whole first line, and it is not empty
EmptyLineMatch(text) ==
    LET n == IndexOf(text, <<"\n">>)
    IN IF n < 1 \/ LastNewlineOfRun(text, n + 1) = -1 THEN NoMatch
       ELSE [matched |-> TRUE,
             title |-> Slice(text, 0, n),
             body |-> SliceFrom(text, LastNewlineOfRun(text, n + 1) + 1)]

\* a faulty variant of PeriodSplit: periodIndex <= 100
PeriodSplitUpToLimit(text) ==
    LET periodIndex == IndexOf(text, <<".", " ">>)
    IN IF Len(text) > TitleLengthLimit /\ periodIndex # -1 /\ periodIndex <= PeriodIndexLimit
       THEN [matched |-> TRUE,
             title |-> Trim(Slice(text, 0, periodIndex + 1)),
             body |-> Trim(SliceFrom(text, periodIndex + 2))]
       ELSE NoMatch

\* the split of a very long single line at the first period
PeriodSplit(text) ==
    LET periodIndex == IndexOf(text, <<".", " ">>)
    IN IF Len(text) > TitleLengthLimit /\ periodIndex # -1 /\ periodIndex < PeriodIndexLimit
       THEN [matched |-> TRUE,
             title |-> Trim(Slice(text, 0, periodIndex + 1)),
             body |-> Trim(SliceFrom(text, periodIndex + 2))]
       ELSE NoMatch

parseCommitMessage(text) ==
    IF text = <<>> THEN [title |-> <<>>, body |-> <<>>]
    ELSE LET emptyLineMatch == EmptyLineMatch(text)
             newlineIndex == IndexOf(text, <<"\n">>)
             periodSplit == PeriodSplit(text)
         IN IF emptyLineMatch.matched
            THEN [title |-> Trim(emptyLineMatch.title), body |-> Trim(emptyLineMatch.body)]
            ELSE IF newlineIndex # -1
            THEN [title |-> Trim(Slice(text, 0, newlineIndex)),
                  body |-> Trim(SliceFrom(text, newlineIndex + 1))]
            ELSE IF periodSplit.matched
            THEN [title |-> periodSplit.title, body |-> periodSplit.body]
            ELSE [title |-> Trim(text), body |-> <<>>]

----------------------------------------------------------------------------
(* Slide generator: template variables of a commit and of a file *)

\* String.prototype.replace(pattern, replacement) with a string pattern: the
\* first occurrence only
ReplaceFirst(text, pattern, replacement) ==
    LET i == IndexOf(text, pattern)
    IN IF i = -1 THEN text
       ELSE Slice(text, 0, i) \o replacement \o SliceFrom(text, i + Len(pattern))

\* String(n).padStart(2, '0')
PadStart2(n) == IF n < 10 THEN <<"0">> \o NumberToString(n) ELSE NumberToString(n)

\* String(year).slice(-2)
LastTwo(text) == IF Len(text) <= 2 THEN text ELSE SubSeq(text, Len(text) - 1, Len(text))

months ==
    <<<<"J", "a", "n">>, <<"F", "e", "b">>, <<"M", "a", "r">>, <<"A", "p", "r">>, <<"M", "a",
        "y">>, <<"J", "u", "n">>,
      <<"J", "u", "l">>, <<"A", "u", "g">>, <<"S", "e", "p">>, <<"O", "c", "t">>, <<"N", "o",
          "v">>, <<"D", "e", "c">>>>
fullMonths ==
    <<<<"J", "a", "n", "u", "a", "r", "y">>, <<"F", "e", "b", "r", "u", "a", "r", "y">>, <<"M",
        "a", "r", "c", "h">>, <<"A", "p", "r", "i", "l">>, <<"M", "a", "y">>, <<"J", "u", "n",
        "e">>,
      <<"J", "u", "l", "y">>, <<"A", "u", "g", "u", "s", "t">>, <<"S", "e", "p", "t", "e", "m",
          "b", "e", "r">>, <<"O", "c", "t", "o", "b", "e", "r">>, <<"N", "o", "v", "e", "m",
          "b", "e", "r">>, <<"D", "e", "c", "e", "m", "b", "e", "r">>>>

\* date is [year, month (0..11), day, hours, minutes], what the getters
\* give; the replaces are applied one after the other, 'yyyy' first and
\* 'mm' last
formatDateWithFormat(date, format) ==
    ReplaceFirst(ReplaceFirst(ReplaceFirst(ReplaceFirst(ReplaceFirst(
    ReplaceFirst(ReplaceFirst(ReplaceFirst(ReplaceFirst(format,
        <<"y", "y", "y", "y">>, NumberToString(date.year)),
        <<"y", "y">>, LastTwo(NumberToString(date.year))),
        <<"M", "M", "M", "M">>, fullMonths[date.month + 1]),
        <<"M", "M", "M">>, months[date.month + 1]),
        <<"M", "M">>, PadStart2(date.month + 1)),
        <<"d", "d">>, PadStart2(date.day)),
        <<"d">>, NumberToString(date.day)),
        <<"H", "H">>, PadStart2(date.hours)),
        <<"m", "m">>, PadStart2(date.minutes))

\* commit.author.match(/^(.+?)\s*<(.+)>$/): group 1 is the shortest prefix
\* after which whitespace, '<', at least one character and a final '>' follow
AuthorMatch(author) ==
    LET fits(n) ==
            LET stop == {j \in (n + 1)..Len(author) : author[j] \notin Whitespace}
                lt == IF stop = {} THEN 0 ELSE Min(stop)
            IN /\ lt # 0 /\ author[lt] = "<"
               /\ Len(author) >= lt + 2 /\ author[Len(author)] = ">"
               /\ \A j \in 1..Len(author) : j <= n \/ j > lt => author[j] # "\n"
        ns == {n \in 1..Len(author) : fits(n)}
    IN IF ns = {} THEN NoMatch
       ELSE LET n == Min(ns)
                lt == Min({j \in (n + 1)..Len(author) : author[j] \notin Whitespace})
            IN [matched |-> TRUE, g1 |-> SubSeq(author, 1, n),
                g2 |-> SubSeq(author, lt + 1, Len(author) - 1)]

\* the names of the template variables
KeyAuthorName == <<"a", "u", "t", "h", "o", "r", "N", "a", "m", "e">>
KeyAuthorEmail == <<"a", "u", "t", "h", "o", "r", "E", "m", "a", "i", "l">>
KeyCommitDate == <<"c", "o", "m", "m", "i", "t", "D", "a", "t", "e">>
KeyMessageTitle == <<"m", "e", "s", "s", "a", "g", "e", "T", "i", "t", "l", "e">>
KeyMessageBody == <<"m", "e", "s", "s", "a", "g", "e", "B", "o", "d", "y">>
KeyCommitHash == <<"c", "o", "m", "m", "i", "t", "H", "a", "s", "h">>
KeyCommitHashShort == <<"c", "o", "m", "m", "i", "t", "H", "a", "s", "h", "S", "h", "o", "r",
    "t">>
KeyFileName == <<"f", "i", "l", "e", "N", "a", "m", "e">>
KeyFilePath == <<"f", "i", "l", "e", "P", "a", "t", "h">>
KeyFileSummary == <<"f", "i", "l", "e", "S", "u", "m", "m", "a", "r", "y">>
KeyCode == <<"c", "o", "d", "e">>
KeyCommitDetails == <<"c", "o", "m", "m", "i", "t", "D", "e", "t", "a", "i", "l", "s">>

\* { ...a, ...b }: the properties of b win
Spread(a, b) == b @@ a

\* the object getCommitVariables returns, given its local constants
CommitVariablesOf(msg, authorMatch, commit, options) ==
    (KeyAuthorName :> (IF authorMatch.matched THEN Trim(authorMatch.g1) ELSE commit.author))
    @@ (KeyAuthorEmail :> (IF authorMatch.matched THEN Trim(authorMatch.g2) ELSE <<>>))
    @@ (KeyCommitDate :> formatDateWithFormat(commit.date, options.dateFormat))
    @@ (KeyMessageTitle :> msg.title)
    @@ (KeyMessageBody :> msg.body)
    @@ (KeyCommitHash :> commit.hash)
    @@ (KeyCommitHashShort :> commit.hashShort)

getCommitVariables(commit, options) ==
    CommitVariablesOf(parseCommitMessage(commit.message), AuthorMatch(commit.author),
                      commit, options)

\* path.split('/').pop()
getFileName(path) ==
    LET slashes == {i \in 1..Len(path) : path[i] = "/"}
    IN IF slashes = {} THEN path ELSE SubSeq(path, Max(slashes) + 1, Len(path))

\* a faulty file summary: the file itself counted among the files left out
FileSummaryCountingItself(diff, allDiffs) ==
    LET IsOther(d) == d.path # diff.path
        others == SelectSeq(allDiffs, IsOther)
        otherFiles == [i \in 1..Min({5, Len(others)}) |-> getFileName(others[i].path)]
        moreCount == Len(allDiffs) - Len(otherFiles)
    IN IF Len(allDiffs) > 1 /\ Len(otherFiles) > 0
       THEN <<"A", "l", "s", "o", " ", "c", "h", "a", "n", "g", "e", "d", ":",
           " ">> \o Join(otherFiles, <<",", " ">>)
            \o (IF moreCount > 0
                THEN <<" ", "a", "n", "d", " ">> \o NumberToString(moreCount) \o <<" ", "m",
                    "o", "r", "e">> ELSE <<>>)
       ELSE <<>>

\* the file summary of getFileVariables
FileSummary(diff, allDiffs) ==
    LET IsOther(d) == d.path # diff.path
        others == SelectSeq(allDiffs, IsOther)
        otherFiles == [i \in 1..Min({5, Len(others)}) |-> getFileName(others[i].path)]
        moreCount == Len(allDiffs) - 1 - Len(otherFiles)
    IN IF Len(allDiffs) > 1 /\ Len(otherFiles) > 0
       THEN <<"A", "l", "s", "o", " ", "c", "h", "a", "n", "g", "e", "d", ":",
           " ">> \o Join(otherFiles, <<",", " ">>)
            \o (IF moreCount > 0
                THEN <<" ", "a", "n", "d", " ">> \o NumberToString(moreCount) \o <<" ", "m",
                    "o", "r", "e">> ELSE <<>>)
       ELSE <<>>

getFileVariables(diff, allDiffs) ==
    (KeyAuthorName :> <<>>) @@ (KeyAuthorEmail :> <<>>) @@ (KeyCommitDate :> <<>>)
    @@ (KeyMessageTitle :> <<>>) @@ (KeyMessageBody :> <<>>)
    @@ (KeyCommitHash :> <<>>) @@ (KeyCommitHashShort :> <<>>)
    @@ (KeyFileName :> getFileName(diff.path))
    @@ (KeyFilePath :> diff.path)
    @@ (KeyFileSummary :> FileSummary(diff, allDiffs))

----------------------------------------------------------------------------
(* Slide generator: code block, slides, the four organization modes *)

\* null, for a string | null
NullString == <<"null">>
\* a string | null used as a condition
Truthy(text) == text # NullString /\ text # <<>>

\* generateHighlightString compressing the added lines of each hunk apart
generateHighlightStringHunkByHunk(hs, mode) ==
    LET allRanges == Concat([i \in 1..Len(hs) |-> compressToRanges(hs[i].addedLineNumbers)])
    IN IF Len(allRanges) = 0 THEN <<>>
       ELSE Join(allRanges, IF mode = "stepped" THEN <<"|">> ELSE <<",">>)

\* generateHighlightString of the diff parser
generateHighlightString(hs, mode) ==
    LET allAddedLines == Concat([i \in 1..Len(hs) |-> hs[i].addedLineNumbers])
    IN IF Len(allAddedLines) = 0 THEN <<>>
       ELSE Join(compressToRanges(allAddedLines),
           IF mode = "stepped" THEN <<"|">> ELSE <<",">>)

\* ` [${highlights}]`, or nothing
HighlightSpec(highlights) ==
    IF highlights # <<>> THEN <<" ", "[">> \o highlights \o <<"]">> ELSE <<>>

\* the content of generateCodeBlock: the whole file, or the diff lines
CodeContent(diff, options) ==
    IF options.showFullFile /\ Truthy(diff.newContent) THEN deindent(diff.newContent)
    ELSE formatDiffContent(diff.hunks, options.lineChangeDisplay # "additions-only")

\* the highlights of generateCodeBlock
CodeHighlights(diff, options) ==
    IF ~(options.highlightAddedLines /\ Len(diff.hunks) > 0) THEN <<>>
    ELSE IF options.showFullFile /\ Truthy(diff.newContent)
    THEN generateHighlightString(diff.hunks, options.highlightMode)
    ELSE calculateDiffHighlights(diff.hunks, options.lineChangeDisplay # "additions-only",
                                 options.highlightMode)

generateCodeBlock(diff, options) ==
    createSafeCodeBlock(CodeContent(diff, options),
                        diff.language \o HighlightSpec(CodeHighlights(diff, options)))

DEFAULT_COMMIT_DETAILS_TEMPLATE ==
    <<">", " ", "*", "*", "{", "{", "m", "e", "s", "s", "a", "g", "e", "T", "i", "t", "l", "e",
        "}", "}", "*", "*", "\n", "\n", "{", "{", "m", "e", "s", "s", "a", "g", "e", "B", "o",
        "d", "y", "}", "}", "\n", "\n", "*", "{", "{", "a", "u", "t", "h", "o", "r", "N", "a",
        "m", "e", "}", "}", " ", "BULLET", " ", "{", "{", "c", "o", "m", "m", "i", "t", "D",
        "a", "t", "e", "}", "}", "*">>
DEFAULT_SLIDE_TEMPLATE ==
    <<"#", "#", " ", "{", "{", "f", "i", "l", "e", "N", "a", "m", "e", "}", "}", "\n", "\n",
        "{", "{", "c", "o", "m", "m", "i", "t", "D", "e", "t", "a", "i", "l", "s", "}", "}",
        "\n", "\n", "{", "{", "c", "o", "d", "e", "}", "}">>
DEFAULT_COMMIT_ONLY_TEMPLATE ==
    <<"#", "#", " ", "{", "{", "m", "e", "s", "s", "a", "g", "e", "T", "i", "t", "l", "e", "}",
        "}", "\n", "\n", "{", "{", "m", "e", "s", "s", "a", "g", "e", "B", "o", "d", "y", "}",
        "}", "\n", "\n", "*", "{", "{", "a", "u", "t", "h", "o", "r", "N", "a", "m", "e", "}",
        "}", " ", "<", "{", "{", "a", "u", "t", "h", "o", "r", "E", "m", "a", "i", "l", "}",
        "}", ">", " ", "BULLET", " ", "{", "{", "c", "o", "m", "m", "i", "t", "D", "a", "t",
        "e", "}", "}", " ", "BULLET", " ", "{", "{", "c", "o", "m", "m", "i", "t", "H", "a",
        "s", "h", "S", "h", "o", "r", "t", "}", "}", "*">>

\* the options of createDefaultFormatOptions that the generator reads
createDefaultFormatOptions ==
    [highlightAddedLines |-> TRUE, highlightMode |-> "stepped",
     lineChangeDisplay |-> "additions-only", showFullFile |-> FALSE,
     slideOrganization |-> "flat",
     commitDetailsTemplate |-> DEFAULT_COMMIT_DETAILS_TEMPLATE,
     slideTemplate |-> DEFAULT_SLIDE_TEMPLATE,
     dateFormat |-> <<"M", "M", "M", " ", "d", ",", " ", "y", "y", "y", "y">>]

\* '\n\n---\n\n' between slides, '\n\n--\n\n' between subslides
SlideSeparator == <<"\n", "\n", "-", "-", "-", "\n", "\n">>
SubslideSeparator == <<"\n", "\n", "-", "-", "\n", "\n">>

formatSlide(slide) ==
    IF Truthy(slide.notes) THEN slide.content \o <<"\n", "\n", "n", "o", "t", "e", ":",
        " ">> \o slide.notes
    ELSE slide.content

\* fileDiffs.get(commit.hash) ?? []
DiffsOf(fileDiffsMap, commit) ==
    IF commit.hash \in DOMAIN fileDiffsMap THEN fileDiffsMap[commit.hash] ELSE <<>>

\* the slide of generateCommitOnlySlide, given its vars
CommitOnlySlideOf(variables) ==
    [title |-> variables[KeyMessageTitle],
     content |-> renderTemplate(DEFAULT_COMMIT_ONLY_TEMPLATE, variables),
     notes |-> NullString]

generateCommitOnlySlide(commit, options) ==
    CommitOnlySlideOf(getCommitVariables(commit, options))

\* the slide of a file, given commitVars, fileVars (with the file name as
\* the slide shows it), codeBlock and commitDetails, and the title
SlideOf(commitVars, fileVars, codeBlock_, commitDetails, title, options) ==
    [title |-> title,
     content |-> renderTemplate(options.slideTemplate,
                     Spread(Spread(commitVars, fileVars),
                            (KeyCode :> codeBlock_) @@ (KeyCommitDetails :> commitDetails))),
     notes |-> NullString]

\* the slide of generateFileSlide, given commitVars, fileVars and codeBlock
FileSlideOf(commitVars, fileVars, codeBlock_, options) ==
    SlideOf(commitVars, fileVars, codeBlock_,
            renderTemplate(options.commitDetailsTemplate, commitVars),
            fileVars[KeyFileName], options)

generateFileSlide(commit, diff, allDiffs, options) ==
    FileSlideOf(getCommitVariables(commit, options), getFileVariables(diff, allDiffs),
                generateCodeBlock(diff, options), options)

\* a faulty variant of CommitWithSubslidesOf: the commit details are
\* repeated on every subslide
CommitWithSubslidesOfRepeatingDetails(commitVars, diffs, options) ==
    [title |-> commitVars[KeyMessageTitle],
     content |->
        Join(<<<<"#", "#", " ">> \o commitVars[KeyMessageTitle] \o <<"\n", "\n">>
               \o renderTemplate(options.commitDetailsTemplate, commitVars)>>
             \o [i \in 1..Len(diffs) |->
                    FileSlideOf(commitVars, getFileVariables(diffs[i], diffs),
                                generateCodeBlock(diffs[i], options), options).content],
             SubslideSeparator),
     notes |-> NullString]

\* the slide of generateCommitWithSubslides, given commitVars
CommitWithSubslidesOf(commitVars, diffs, options) ==
    [title |-> commitVars[KeyMessageTitle],
     content |->
        Join(<<<<"#", "#", " ">> \o commitVars[KeyMessageTitle] \o <<"\n", "\n">>
               \o renderTemplate(options.commitDetailsTemplate, commitVars)>>
             \o [i \in 1..Len(diffs) |->
                    SlideOf(commitVars, getFileVariables(diffs[i], diffs),
                            generateCodeBlock(diffs[i], options), <<>>, <<>>,
                            options).content],
             SubslideSeparator),
     notes |-> NullString]

generateCommitWithSubslides(commit, diffs, options) ==
    CommitWithSubslidesOf(getCommitVariables(commit, options), diffs, options)

\* slides.map(slide => this.formatSlide(slide)).join('\n\n---\n\n')
JoinSlides(slides) ==
    Join([i \in 1..Len(slides) |-> formatSlide(slides[i])], SlideSeparator)

\* a faulty variant of FlatSlidesOfCommit: nothing for a commit without diffs
FlatSlidesOfCommitFilesOnly(commit, fileDiffsMap, options) ==
    LET diffs == DiffsOf(fileDiffsMap, commit)
    IN [i \in 1..Len(diffs) |-> generateFileSlide(commit, diffs[i], diffs, options)]

\* body of the loop over the commits of generateFlatSlides
FlatSlidesOfCommit(commit, fileDiffsMap, options) ==
    LET diffs == DiffsOf(fileDiffsMap, commit)
    IN IF Len(diffs) = 0 THEN <<generateCommitOnlySlide(commit, options)>>
       ELSE [i \in 1..Len(diffs) |-> generateFileSlide(commit, diffs[i], diffs, options)]

generateFlatSlides(commitList, fileDiffsMap, options) ==
    JoinSlides(Concat([c \in 1..Len(commitList) |->
                          FlatSlidesOfCommit(commitList[c], fileDiffsMap, options)]))

generateGroupedSlides(commitList, fileDiffsMap, options) ==
    JoinSlides([c \in 1..Len(commitList) |->
                   LET diffs == DiffsOf(fileDiffsMap, commitList[c])
                   IN IF Len(diffs) = 0 THEN generateCommitOnlySlide(commitList[c], options)
                      ELSE generateCommitWithSubslides(commitList[c], diffs, options)])

\* the { commit, diff } pairs in the order the loops of
\* generateProgressiveSlides meet them
HistoryEntries(commitList, fileDiffsMap) ==
    Concat([c \in 1..Len(commitList) |->
               LET diffs == DiffsOf(fileDiffsMap, commitList[c])
               IN [i \in 1..Len(diffs) |-> [commit |-> commitList[c], diff |-> diffs[i]]]])

\* the keys of fileHistory in insertion order: the paths by first appearance
RECURSIVE PathsInOrder(_, _)
PathsInOrder(entries, seen) ==
    IF Len(entries) = 0 THEN seen
    ELSE PathsInOrder(Tail(entries),
                      IF \E i \in 1..Len(seen) : seen[i] = entries[1].diff.path
                      THEN seen ELSE Append(seen, entries[1].diff.path))

\* a faulty stepLabel: written for a history of one step as well
StepLabelForEveryHistory(i, n) ==
    <<" ", "(">> \o NumberToString(i) \o <<"/">> \o NumberToString(n) \o <<")">>

\* ` (${i + 1}/${history.length})`
StepLabel(i, n) ==
    IF n > 1 THEN <<" ", "(">> \o NumberToString(i) \o <<"/">> \o NumberToString(n) \o <<")">>
    ELSE <<>>

\* the slide of one step of a file's history, given commitVars and fileVars
ProgressiveSlideOf(commitVars, fileVars, filePath, stepLabel, diff, options) ==
    SlideOf(commitVars,
            Spread(fileVars, (KeyFileName :> (fileVars[KeyFileName] \o stepLabel))),
            generateCodeBlock(diff, options),
            renderTemplate(options.commitDetailsTemplate, commitVars),
            filePath, options)

\* the slides of one file's history
ProgressiveSlidesOfFile(filePath, history, options) ==
    [i \in 1..Len(history) |->
        ProgressiveSlideOf(getCommitVariables(history[i].commit, options),
                           getFileVariables(history[i].diff, <<history[i].diff>>),
                           filePath, StepLabel(i, Len(history)), history[i].diff, options)]

generateProgressiveSlides(commitList, fileDiffsMap, options) ==
    LET entries == HistoryEntries(commitList, fileDiffsMap)
        paths == PathsInOrder(entries, <<>>)
        historyOf(path) ==
            LET HasPath(entry) == entry.diff.path = path
            IN SelectSeq(entries, HasPath)
    IN JoinSlides(Concat([p \in 1..Len(paths) |->
                             ProgressiveSlidesOfFile(paths[p], historyOf(paths[p]), options)]))

\* ` (hunk ${hunkIdx + 1}/${diff.hunks.length})`
HunkLabel(i, n) ==
    IF n > 1
    THEN <<" ", "(", "h", "u", "n", "k",
        " ">> \o NumberToString(i) \o <<"/">> \o NumberToString(n) \o <<")">>
    ELSE <<>>

\* faulty highlights of the slide of one hunk: the numbers the added lines
\* have in the new file
HunkHighlightsOfFileLines(hunk, inclRemoved, options) ==
    IF options.highlightAddedLines /\ Len(hunk.addedLineNumbers) > 0
    THEN Join(compressToRangesOfGenerator(hunk.addedLineNumbers),
              HighlightSeparator(options.highlightMode))
    ELSE <<>>

\* the highlights of the slide of one hunk
HunkHighlights(hunk, inclRemoved, options) ==
    IF options.highlightAddedLines /\ Len(hunk.addedLineNumbers) > 0
    THEN LET added == HighlightHunkLines(hunk.lines, 1,
                          [currentLine |-> 1, addedLineNumbers |-> <<>>],
                          inclRemoved).addedLineNumbers
         IN IF Len(added) > 0
            THEN Join(compressToRangesOfGenerator(added),
                      HighlightSeparator(options.highlightMode))
            ELSE <<>>
    ELSE <<>>

\* the slide of one hunk, given commitVars and the hunk's label
HunkSlideOf(commitVars, diff, hunk, hunkLabel, inclRemoved, options) ==
    SlideOf(commitVars,
            (KeyFileName :> (getFileName(diff.path) \o hunkLabel))
            @@ (KeyFilePath :> diff.path)
            @@ (KeyFileSummary :> <<>>),
            createSafeCodeBlock(formatDiffContent(<<hunk>>, inclRemoved),
                diff.language \o HighlightSpec(HunkHighlights(hunk, inclRemoved, options))),
            renderTemplate(options.commitDetailsTemplate, commitVars),
            diff.path, options)

\* the slides of one file of a commit, one for each hunk
PerHunkSlidesOfFile(commit, diff, options) ==
    [h \in 1..Len(diff.hunks) |->
        HunkSlideOf(getCommitVariables(commit, options), diff, diff.hunks[h],
                    HunkLabel(h, Len(diff.hunks)),
                    options.lineChangeDisplay # "additions-only", options)]

\* a faulty variant of PerHunkSlidesOfCommit: nothing for a commit without diffs
PerHunkSlidesOfCommitFilesOnly(commit, fileDiffsMap, options) ==
    LET diffs == DiffsOf(fileDiffsMap, commit)
    IN Concat([i \in 1..Len(diffs) |-> PerHunkSlidesOfFile(commit, diffs[i], options)])

\* body of the loop over the commits of generatePerHunkSlides
PerHunkSlidesOfCommit(commit, fileDiffsMap, options) ==
    LET diffs == DiffsOf(fileDiffsMap, commit)
    IN IF Len(diffs) = 0 THEN <<generateCommitOnlySlide(commit, options)>>
       ELSE Concat([i \in 1..Len(diffs) |-> PerHunkSlidesOfFile(commit, diffs[i], options)])

generatePerHunkSlides(commitList, fileDiffsMap, options) ==
    JoinSlides(Concat([c \in 1..Len(commitList) |->
                          PerHunkSlidesOfCommit(commitList[c], fileDiffsMap, options)]))

\* the switch on options.slideOrganization; 'flat' and the default are the
\* same call
generateSlides(commitList, fileDiffsMap, options) ==
    CASE options.slideOrganization = "grouped" ->
             generateGroupedSlides(commitList, fileDiffsMap, options)
      [] options.slideOrganization = "progressive" ->
             generateProgressiveSlides(commitList, fileDiffsMap, options)
      [] options.slideOrganization = "per-hunk" ->
             generatePerHunkSlides(commitList, fileDiffsMap, options)
      [] OTHER -> generateFlatSlides(commitList, fileDiffsMap, options)

----------------------------------------------------------------------------
(* The diff tool: the unified-diff text the parser is given.  A diff is     *)
(* drawn as a sequence of line kinds; the header of every hunk is written  *)
(* with the counts of the lines that follow it, as git writes it.          *)

DiffItemKinds == {"hunk", "add", "del", "ctx", "delDashes", "noEol"}

\* the text of a changed, unchanged or remark line
DiffItemLine(kind) ==
    CASE kind = "add" -> <<"+", " ", " ", "a">>
      \* an added empty line
      [] kind = "addBlank" -> <<"+">>
      [] kind = "del" -> <<"-", "b">>
      [] kind = "ctx" -> <<" ", " ", " ", "c">>
      \* the removed line "-- x" (a comment in SQL, Lua, Haskell)
      [] kind = "delDashes" -> <<"-", "-", "-", " ", "x">>
      \* "\ No newline at end of file"
      [] kind = "noEol" -> <<"BSL", " ", "N", "o", " ", "n", "e", "w", "l", "i", "n", "e">>

CountsOld(kind) == kind \in {"del", "ctx", "delDashes"}
CountsNew(kind) == kind \in {"add", "addBlank", "ctx"}

CountWhere(items, Test(_)) == Cardinality({i \in 1..Len(items) : Test(items[i])})

\* "<start>,<count>" of a hunk header; git leaves out a count of 1 and names
\* the line before an empty range
GitRange(pos, count) ==
    IF count = 1 THEN NumberToString(pos)
    ELSE NumberToString(IF count = 0 THEN pos - 1 ELSE pos)
         \o <<",">> \o NumberToString(count)

GitHunkHeader(oldPos, oldCount, newPos, newCount) ==
    <<"@", "@", " ", "-">> \o GitRange(oldPos, oldCount) \o <<" ", "+">>
        \o GitRange(newPos, newCount) \o <<" ", "@", "@">>

\* index of the last item of the hunk whose header is item i
HunkEnd(items, i) ==
    LET nextHunks == {j \in (i + 1)..Len(items) : items[j] = "hunk"}
    IN IF nextHunks = {} THEN Len(items) ELSE Min(nextHunks) - 1

RECURSIVE GitDiffLines(_, _, _, _)
GitDiffLines(items, i, oldPos, newPos) ==
    IF i > Len(items) THEN <<>>
    ELSE IF items[i] = "hunk" THEN
        LET body == SubSeq(items, i + 1, HunkEnd(items, i))
            oldCount == CountWhere(body, CountsOld)
            newCount == CountWhere(body, CountsNew)
        IN <<GitHunkHeader(oldPos, oldCount, newPos, newCount)>>
           \o [k \in 1..Len(body) |-> DiffItemLine(body[k])]
           \o GitDiffLines(items, HunkEnd(items, i) + 1,
                           oldPos + oldCount + HunkGap, newPos + newCount + HunkGap)
    ELSE <<DiffItemLine(items[i])>> \o GitDiffLines(items, i + 1, oldPos, newPos)

\* "diff --git", "index", "--- a/f", "+++ b/f": what git writes before the
\* first hunk of a file
GitFileHeader ==
    << <<"d", "i", "f", "f", " ", "-", "-", "g", "i", "t", " ", "a", "/", "f", " ", "b", "/", "f">>,
       <<"i", "n", "d", "e", "x", " ", "1", ".", ".", "2">>,
       <<"-", "-", "-", " ", "a", "/", "f">>,
       <<"+", "+", "+", " ", "b", "/", "f">> >>

\* the text: the lines joined by "\n", and a final "\n" when endsWithNewline
GitDiffText(items, withFileHeader, endsWithNewline) ==
    LET lines == (IF withFileHeader THEN GitFileHeader ELSE <<>>)
                 \o GitDiffLines(items, 1, 1, 1)
    IN Join(lines, <<"\n">>)
       \o (IF endsWithNewline /\ Len(lines) > 0 THEN <<"\n">> ELSE <<>>)

DiffItemSeqs == UNION {[1..n -> DiffItemKinds] : n \in 0..MaxDiffLines}

\* a well-formed diff: a sequence of hunks, each a header followed by its
\* lines, at least one of them changed
WellFormedDiff(items) ==
    /\ Len(items) > 0 => items[1] = "hunk"
    /\ \A i \in 1..Len(items) :
           items[i] = "hunk" =>
               \E j \in (i + 1)..HunkEnd(items, i) : items[j] \in {"add", "del", "delDashes"}

----------------------------------------------------------------------------
(* Specification of the diff component: a text is drawn, parsed, and the   *)
(* parsed hunks are rendered by generateCodeBlock's diff-extracted branch. *)

InitDiff ==
    /\ pc = "diffInput"
    /\ IdleFence /\ IdleTemplate /\ IdleMessage /\ IdleGenerator /\ IdleUtility
    /\ IdleApp
    /\ diffItems \in DiffItemSeqs
    /\ \E withFileHeader \in BOOLEAN, endsWithNewline \in BOOLEAN :
           diffText = GitDiffText(diffItems, withFileHeader, endsWithNewline)
    /\ hunks = <<>>
    /\ includeRemoved = FALSE
    /\ content = <<>>
    /\ addedLines = <<>>

ParseDiff ==
    /\ pc = "diffInput"
    /\ hunks' = parseDiffHunks(diffText)
    /\ pc' = "diffParsed"
    /\ UNCHANGED <<diffItems, diffText, includeRemoved, content, addedLines>>
    /\ UNCHANGED notDiffVars

\* generateCodeBlock, diff-extracted branch, for lineChangeDisplay either
\* 'additions-only' (inclRemoved FALSE) or 'full-diff'
FormatDiff(inclRemoved) ==
    /\ pc = "diffParsed"
    /\ includeRemoved' = inclRemoved
    /\ content' = formatDiffContent(hunks, inclRemoved)
    /\ addedLines' = CollectAddedLines(hunks, inclRemoved)
    /\ pc' = "diffFormatted"
    /\ UNCHANGED <<diffItems, diffText, hunks>>
    /\ UNCHANGED notDiffVars

NextDiff ==
    \/ ParseDiff
    \/ \E inclRemoved \in BOOLEAN : FormatDiff(inclRemoved)

SpecDiff == InitDiff /\ [][NextDiff]_vars

----------------------------------------------------------------------------
(* Specification of createSafeCodeBlock: a code body is drawn and fenced.  *)

FenceAlphabet == {"BT", "x", " ", "\n"}
CodeBodies == UNION {[1..n -> FenceAlphabet] : n \in 0..MaxBodyLength}
\* lang, and lang with a highlight spec
LangSpecs == {<<"t", "s">>, <<"t", "s", " ", "[", "1", "-", "2", "]">>}

InitFence ==
    /\ pc = "fenceInput"
    /\ codeBody \in CodeBodies
    /\ codeBlock = <<>>
    /\ IdleDiff /\ IdleTemplate /\ IdleMessage /\ IdleGenerator /\ IdleUtility
    /\ IdleApp

FenceCode(langSpec) ==
    /\ pc = "fenceInput"
    /\ codeBlock' = createSafeCodeBlock(codeBody, langSpec)
    /\ pc' = "fenced"
    /\ UNCHANGED <<codeBody, notFenceVars>>

NextFence == \E langSpec \in LangSpecs : FenceCode(langSpec)

SpecFence == InitFence /\ [][NextFence]_vars

----------------------------------------------------------------------------
(* Specification of the template engine: a template and a variable object  *)
(* are drawn and rendered.                                                 *)

NameX == <<"x">>
NameY == <<"y">>
NameConstructor == <<"c", "o", "n", "s", "t", "r", "u", "c", "t", "o", "r">>
Placeholder(name) == <<"{", "{">> \o name \o <<"}", "}">>

\* a template is a concatenation of these
TemplatePieces ==
    {<<"A">>, <<" ">>, <<"\n">>,
     Placeholder(NameX), Placeholder(NameY), Placeholder(NameConstructor)}

Templates ==
    {Concat(ps) : ps \in UNION {[1..n -> TemplatePieces] : n \in 0..MaxTemplatePieces}}

\* the values a variable may have; the variable may also be missing
ValuesOfX == {<<>>, <<" ", "v", " ">>, Placeholder(NameY)}
ValuesOfY == {<<"w">>}

VariableObjects ==
    {[n \in {} |-> <<>>]}
    \cup {(NameX :> vx) : vx \in ValuesOfX}
    \cup {(NameY :> vy) : vy \in ValuesOfY}
    \cup {(NameX :> vx) @@ (NameY :> vy) : vx \in ValuesOfX, vy \in ValuesOfY}

InitTemplate ==
    /\ pc = "templateInput"
    /\ template \in Templates
    /\ templateVars \in VariableObjects
    /\ rendered = <<>>
    /\ IdleDiff /\ IdleFence /\ IdleMessage /\ IdleGenerator /\ IdleUtility
    /\ IdleApp

RenderTemplate ==
    /\ pc = "templateInput"
    /\ rendered' = renderTemplate(template, templateVars)
    /\ pc' = "rendered"
    /\ UNCHANGED <<template, templateVars, notTemplateEngineVars>>

NextTemplate == RenderTemplate

SpecTemplate == InitTemplate /\ [][NextTemplate]_vars

----------------------------------------------------------------------------
(* Specification of parseCommitMessage: a commit message is drawn and      *)
(* parsed.                                                                 *)

\* a line of len characters 'm' with '. ' at index period (0-based; -1 for
\* none), a second '. ' three characters later when asked for, and a period
\* as its last character when asked for
SingleLine(len, period, second, finalPeriod) ==
    [i \in 1..len |->
        IF period # -1 /\ i = period + 1 THEN "."
        ELSE IF period # -1 /\ i = period + 2 THEN " "
        ELSE IF second /\ period # -1 /\ i = period + 4 /\ i < len THEN "."
        ELSE IF second /\ period # -1 /\ i = period + 5 /\ i <= len /\ i > 1 THEN " "
        ELSE IF finalPeriod /\ i = len THEN "."
        ELSE "m"]

SingleLineMessages ==
    {SingleLine(len, period, second, finalPeriod) :
        len \in 0..MaxMessageLength, period \in -1..(MaxMessageLength - 2),
        second \in BOOLEAN, finalPeriod \in BOOLEAN}

\* the lines a multi-line message is made of
MessageLines == {<<>>, <<" ">>, <<"a">>, <<"b", " ">>}
MultiLineMessages ==
    {Join(ls, <<"\n">>) : ls \in UNION {[1..n -> MessageLines] : n \in 2..MaxMessageLines}}

InitMessage ==
    /\ pc = "messageInput"
    /\ message \in SingleLineMessages \cup MultiLineMessages
    /\ parsed = [title |-> <<>>, body |-> <<>>]
    /\ IdleDiff /\ IdleFence /\ IdleTemplate /\ IdleGenerator /\ IdleUtility
    /\ IdleApp

ParseMessage ==
    /\ pc = "messageInput"
    /\ parsed' = parseCommitMessage(message)
    /\ pc' = "parsed"
    /\ UNCHANGED <<message, notMessageVars>>

NextMessage == ParseMessage

SpecMessage == InitMessage /\ [][NextMessage]_vars

----------------------------------------------------------------------------
(* Specification of the slide generator: a selection of commits and of     *)
(* their files is drawn, with an organization mode, and the slides are     *)
(* generated.                                                              *)

\* the messages and the authors of the history
HistoryMessages == <<<<"A", "d", "d", " ", "a">>, <<"F", "i", "x", " ", "b", "\n", "\n", "W",
    "h", "y", ".">>, <<"T", "\n", "m", "o", "r", "e">>>>
HistoryAuthors == <<<<"A", "n", "n", " ", "<", "a", "@", "x", ">">>, <<"B", "o", "b">>>>

\* the i-th commit of the history
CommitAt(i) ==
    [hash |-> <<"c">> \o NumberToString(i) \o <<"f", "f">>,
     hashShort |-> <<"c">> \o NumberToString(i),
     message |-> HistoryMessages[(i % 3) + 1],
     author |-> HistoryAuthors[(i % 2) + 1],
     date |-> [year |-> 2024, month |-> (i * 5) % 12, day |-> i * 7,
               hours |-> 9, minutes |-> 5],
     files |-> <<>>]

\* the diffs of the two files a commit may touch, as the modal builds them
\* from the output of the diff tool
FileA ==
    [path |-> <<"s", "r", "c", "/", "a", ".", "t", "s">>,
     hunks |-> parseDiffHunks(GitDiffText(<<"hunk", "ctx", "add">>, TRUE, TRUE)),
     newContent |-> NullString,
     language |-> <<"t", "y", "p", "e", "s", "c", "r", "i", "p", "t">>]
FileB ==
    [path |-> <<"b", ".", "m", "d">>,
     hunks |-> parseDiffHunks(GitDiffText(<<"hunk", "del", "add", "hunk", "add">>, TRUE,
         TRUE)),
     newContent |-> NullString,
     language |-> <<"m", "a", "r", "k", "d", "o", "w", "n">>]

\* the files chosen for a commit
FileChoices == {<<>>, <<FileA>>, <<FileA, FileB>>}

\* the selections of commits of the history, in chronological order
RECURSIVE Ascending(_)
Ascending(S) ==
    IF S = {} THEN <<>> ELSE <<Min(S)>> \o Ascending(S \ {Min(S)})
CommitSelections ==
    {[k \in 1..Len(Ascending(S)) |-> CommitAt(Ascending(S)[k])] : S \in SUBSET (1..MaxCommits)}

\* the maps from a commit's hash to its chosen files; a commit may have no
\* entry
FileDiffMaps(commitList) ==
    UNION {[{commitList[k].hash : k \in K} -> FileChoices] : K \in SUBSET (1..Len(commitList))}

SlideOrganizations == {"flat", "grouped", "progressive", "per-hunk"}

\* the options of the settings tab: the defaults with each organization,
\* per-hunk slides with the removed lines shown as well, and the defaults
\* with messageBodyAsSpeakerNotes: true added, as the tests build them
FormatOptionChoices ==
    {[createDefaultFormatOptions EXCEPT !.slideOrganization = m] : m \in SlideOrganizations}
    \cup {[createDefaultFormatOptions EXCEPT !.slideOrganization = "per-hunk",
                                             !.lineChangeDisplay = "full-diff"]}
    \cup {Spread(createDefaultFormatOptions, [messageBodyAsSpeakerNotes |-> TRUE])}

InitSlides ==
    /\ pc = "slidesInput"
    /\ formatOptions \in FormatOptionChoices
    /\ commits \in CommitSelections
    /\ fileDiffs \in FileDiffMaps(commits)
    /\ markdown = <<>>
    /\ IdleDiff /\ IdleFence /\ IdleTemplate /\ IdleMessage /\ IdleUtility
    /\ IdleApp

GenerateSlides ==
    /\ pc = "slidesInput"
    /\ markdown' = generateSlides(commits, fileDiffs, formatOptions)
    /\ pc' = "generated"
    /\ UNCHANGED <<formatOptions, commits, fileDiffs, notGeneratorVars>>

NextSlides == GenerateSlides

SpecSlides == InitSlides /\ [][NextSlides]_vars

----------------------------------------------------------------------------
(* Claims about the diff component, checked under SpecDiff *)

DiffParsed == pc \in {"diffParsed", "diffFormatted"}

LinesOfType(h, types) == {i \in 1..Len(h.lines) : h.lines[i].type \in types}
EarlierOfType(h, i, types) == Cardinality({j \in LinesOfType(h, types) : j < i})

IsAdded(line) == line.type = "added"
IsRemoved(line) == line.type = "removed"
NewNumbers(lines) == [i \in 1..Len(lines) |-> lines[i].newLineNumber]
OldNumbers(lines) == [i \in 1..Len(lines) |-> lines[i].oldLineNumber]
StrictlyIncreasing(numbers) ==
    \A i \in 1..Len(numbers) : \A j \in 1..Len(numbers) : i < j => numbers[i] < numbers[j]

\* the lines of the text formatDiffContent returned, and those among them
\* that show an added line ("a" is the text of every added line of the diff)
EmittedLines == SplitLines(content)
EmittedAddedPositions == {k \in 1..Len(EmittedLines) : Trim(EmittedLines[k]) = <<"a">>}
CollectedPositions == {addedLines[i] : i \in 1..Len(addedLines)}

\* C2: the positions calculateDiffHighlights collects are exactly the 1-based
\* positions of the added lines in the text formatDiffContent emits for the
\* same hunks and the same includeRemoved (the "// ..." separator counted as
\* one line); each position is collected once.
C2_HighlightsMatchEmittedLines ==
    pc = "diffFormatted" =>
        /\ CollectedPositions = EmittedAddedPositions
        /\ Cardinality(CollectedPositions) = Len(addedLines)

\* C2 witness: two hunks in additions-only display; the removed line of the
\* first hunk is skipped and the added line of the second hunk is counted
\* after the separator, at position 2
C2_Witness ==
    /\ pc = "diffFormatted"
    /\ ~includeRemoved
    /\ Len(hunks) = 2
    /\ \E i \in 1..Len(hunks[1].lines) : IsRemoved(hunks[1].lines[i])
    /\ \E i \in 1..Len(hunks[2].lines) : IsAdded(hunks[2].lines[i])
    /\ addedLines = <<2>>

\* C9 (as claimed): for every well-formed diff text, with or without a final
\* newline and whatever the changed lines start with, every parsed hunk holds
\* newLines added-or-context lines and oldLines removed-or-context lines.
C9_LineAccounting ==
    (DiffParsed /\ WellFormedDiff(diffItems)) =>
        \A k \in 1..Len(hunks) :
            /\ Cardinality(LinesOfType(hunks[k], {"added", "context"})) = hunks[k].newLines
            /\ Cardinality(LinesOfType(hunks[k], {"removed", "context"})) = hunks[k].oldLines

\* C10: in every parsed hunk each added or context line is numbered newStart
\* plus the number of earlier added or context lines, each removed or context
\* line oldStart plus the number of earlier removed or context lines;
\* addedLineNumbers and removedLineNumbers are the numbers of the added and
\* of the removed lines in encounter order, strictly increasing.
C10_LineNumbering ==
    DiffParsed =>
        \A k \in 1..Len(hunks) :
            LET h == hunks[k]
            IN /\ \A i \in LinesOfType(h, {"added", "context"}) :
                      h.lines[i].newLineNumber
                          = h.newStart + EarlierOfType(h, i, {"added", "context"})
               /\ \A i \in LinesOfType(h, {"removed", "context"}) :
                      h.lines[i].oldLineNumber
                          = h.oldStart + EarlierOfType(h, i, {"removed", "context"})
               /\ h.addedLineNumbers = NewNumbers(SelectSeq(h.lines, IsAdded))
               /\ h.removedLineNumbers = OldNumbers(SelectSeq(h.lines, IsRemoved))
               /\ StrictlyIncreasing(h.addedLineNumbers)
               /\ StrictlyIncreasing(h.removedLineNumbers)

\* C10 witness: a second hunk with a context line, a removed line and two
\* added lines, numbered from its own header
C10_Witness ==
    /\ DiffParsed
    /\ \E k \in 1..Len(hunks) :
           /\ hunks[k].newStart > 1
           /\ Len(hunks[k].addedLineNumbers) >= 1
           /\ Len(hunks[k].removedLineNumbers) >= 1
           /\ LinesOfType(hunks[k], {"context"}) # {}


----------------------------------------------------------------------------
(* Claims about createSafeCodeBlock, checked under SpecFence *)

\* the length of the longest run of backticks of a text, by definition
LongestBacktickRun(text) ==
    Max({0} \cup {n \in 1..Len(text) :
                     \E i \in 1..(Len(text) - n + 1) : \A j \in i..(i + n - 1) : text[j] = "BT"})

\* the backticks a text starts with and ends with
LeadingBackticks(text) ==
    LET stop == {j \in 1..Len(text) : text[j] # "BT"}
    IN IF stop = {} THEN Len(text) ELSE Min(stop) - 1
TrailingBackticks(text) ==
    LET stop == {j \in 1..Len(text) : text[j] # "BT"}
    IN IF stop = {} THEN Len(text) ELSE Len(text) - Max(stop)

\* C3: the fence createSafeCodeBlock opens and closes the block with is
\* max(3, 1 + the longest run of backticks of the content) backticks long,
\* so it is longer than every run of backticks inside the content.
C3_FenceLongerThanEveryRun ==
    pc = "fenced" =>
        /\ LeadingBackticks(codeBlock) = Max({3, 1 + LongestBacktickRun(codeBody)})
        /\ TrailingBackticks(codeBlock) = LeadingBackticks(codeBlock)
        /\ LeadingBackticks(codeBlock) > LongestBacktickRun(codeBody)

\* a body holding a run of four backticks has been fenced with five
C3_Witness ==
    /\ pc = "fenced"
    /\ LongestBacktickRun(codeBody) = 4
    /\ LeadingBackticks(codeBlock) = 5

----------------------------------------------------------------------------
(* Claims about renderTemplate, checked under SpecTemplate *)

Contains(text, part) == IndexOf(text, part) # -1

\* C5: text that a substitution has put in is never scanned again: when a
\* variable the template uses has a value holding the token {{y}}, the token
\* is in the output as it is, not replaced by the value of y.
C5_SubstitutedTextNotRescanned ==
    (/\ pc = "rendered"
     /\ rendered # Thrown
     /\ \E name \in DOMAIN templateVars :
            /\ Contains(template, Placeholder(name))
            /\ Contains(templateVars[name], Placeholder(NameY)))
    => Contains(rendered, Placeholder(NameY))

\* the variable object with every missing name given the empty string
AllNames == {NameX, NameY, NameConstructor}
WithMissingAsEmpty(variables) ==
    [n \in AllNames |-> IF n \in DOMAIN variables THEN variables[n] ELSE <<>>]

\* C6: a placeholder whose variable is missing from the object resolves to
\* the empty string, in both passes: rendering does not fail, and returns
\* what it returns when the missing variables are there with value ''.
C6_MissingVariableIsEmpty ==
    pc = "rendered" =>
        /\ rendered # Thrown
        /\ rendered = renderTemplate(template, WithMissingAsEmpty(templateVars))


----------------------------------------------------------------------------
(* Claims about parseCommitMessage, checked under SpecMessage *)

\* the lines of the message, each ended by a newline, that are empty or hold
\* whitespace only (what follows the last newline is not counted as a line)
BlankLines(text) ==
    {i \in 1..(Len(SplitLines(text)) - 1) : Trim(SplitLines(text)[i]) = <<>>}
HasBlankLine(text) == BlankLines(text) # {}
FirstBlankLine(text) == Min(BlankLines(text))

\* the text of the lines before line k, and of the lines after it
LinesBefore(text, k) == Join(SubSeq(SplitLines(text), 1, k - 1), <<"\n">>)
LinesAfter(text, k) == Join(SubSeq(SplitLines(text), k + 1, Len(SplitLines(text))), <<"\n">>)

\* C7 as stated: for every message that contains a blank line the title is
\* everything before the first blank line and the body is the trimmed
\* remainder after it, however many non-blank lines precede the blank line.
C7_TitleIsTextBeforeFirstBlankLine ==
    (pc = "parsed" /\ HasBlankLine(message)) =>
        /\ parsed.title = Trim(LinesBefore(message, FirstBlankLine(message)))
        /\ parsed.body = Trim(LinesAfter(message, FirstBlankLine(message)))

\* C7, amended: for every message that contains a blank line the title is
\* the trimmed first line and the body is the trimmed text after the first
\* line; that is everything before the first blank line and the trimmed
\* remainder after it when, and only when, at most one line precedes the
\* blank line.
C7_TitleIsFirstLine ==
    (pc = "parsed" /\ HasBlankLine(message)) =>
        /\ parsed.title = Trim(SplitLines(message)[1])
        /\ parsed.body = Trim(LinesAfter(message, 1))
        /\ FirstBlankLine(message) <= 2 <=>
               /\ parsed.title = Trim(LinesBefore(message, FirstBlankLine(message)))
               /\ parsed.body = Trim(LinesAfter(message, FirstBlankLine(message)))

\* two non-blank lines precede the blank line: the second is in the body
C7_Witness ==
    /\ pc = "parsed"
    /\ HasBlankLine(message)
    /\ FirstBlankLine(message) = 3
    /\ parsed.title = <<"a">>
    /\ Contains(parsed.body, <<"\n", "\n">>)

\* position (1-based) of the first period that a space follows, 0 for none
FirstPeriodSpace(text) ==
    LET at == {i \in 1..(Len(text) - 1) : text[i] = "." /\ text[i + 1] = " "}
    IN IF at = {} THEN 0 ELSE Min(at)

\* C8: a message without newline is split iff it is longer than 72
\* characters and its first '. ' starts at an index below 100; the title
\* then ends with that period and the body is the trimmed text after '. ';
\* otherwise the title is the whole trimmed message and the body is empty.
C8_SingleLineSplit ==
    (pc = "parsed" /\ ~Contains(message, <<"\n">>)) =>
        LET at == FirstPeriodSpace(message)
        IN IF Len(message) > 72 /\ at # 0 /\ at - 1 < 100
           THEN /\ parsed.title = Trim(SubSeq(message, 1, at))
                /\ parsed.title[Len(parsed.title)] = "."
                /\ parsed.body = Trim(SubSeq(message, at + 2, Len(message)))
           ELSE /\ parsed.title = Trim(message)
                /\ parsed.body = <<>>

\* a long line with its first '. ' at index 99 has been split
C8_Witness ==
    /\ pc = "parsed"
    /\ ~Contains(message, <<"\n">>)
    /\ Len(message) > 72
    /\ FirstPeriodSpace(message) = 100
    /\ Len(parsed.title) = 100
    /\ parsed.body # <<>>


----------------------------------------------------------------------------
(* Claims about generateSlides, checked under SpecSlides *)

\* the parts of a text between the occurrences of a separator
RECURSIVE SplitOn(_, _)
SplitOn(text, sep) ==
    LET i == IndexOf(text, sep)
    IN IF i = -1 THEN <<text>>
       ELSE <<Slice(text, 0, i)>> \o SplitOn(SliceFrom(text, i + Len(sep)), sep)

\* the number of (non-overlapping) occurrences of the horizontal separator
SeparatorCount(text) == Len(SplitOn(text, SlideSeparator)) - 1

\* the files chosen for the k-th selected commit
ChosenFiles(k) ==
    IF commits[k].hash \in DOMAIN fileDiffs THEN fileDiffs[commits[k].hash] ELSE <<>>
NoFilesChosen == \A k \in 1..Len(commits) : Len(ChosenFiles(k)) = 0

\* sum over the commits k..n of max(1, number of files)
RECURSIVE SlideCountFrom(_)
SlideCountFrom(k) ==
    IF k > Len(commits) THEN 0 ELSE Max({1, Len(ChosenFiles(k))}) + SlideCountFrom(k + 1)

\* the slide contents flat mode is to emit for the commits k..n: for each
\* commit in order its commit-only slide when it has no files, else one
\* slide for each of its files in file order
RECURSIVE FlatContentsFrom(_)
FlatContentsFrom(k) ==
    IF k > Len(commits) THEN <<>>
    ELSE (IF Len(ChosenFiles(k)) = 0
          THEN <<generateCommitOnlySlide(commits[k], formatOptions).content>>
          ELSE [i \in 1..Len(ChosenFiles(k)) |->
                   generateFileSlide(commits[k], ChosenFiles(k)[i], ChosenFiles(k),
                                     formatOptions).content])
         \o FlatContentsFrom(k + 1)

\* C1: in flat mode the output is, in commit order, one commit-only slide
\* for each commit without file diffs and one slide for each file diff (in
\* file order) of each commit with diffs, joined by '\n\n---\n\n': it holds
\* the sum over the commits of max(1, number of files) slides and one fewer
\* separators (no slide and no separator for an empty commit list).
C1_FlatSlidesInCommitOrder ==
    (pc = "generated" /\ formatOptions.slideOrganization = "flat") =>
        IF Len(commits) = 0 THEN markdown = <<>>
        ELSE /\ SplitOn(markdown, SlideSeparator) = FlatContentsFrom(1)
             /\ Len(SplitOn(markdown, SlideSeparator)) = SlideCountFrom(1)
             /\ SeparatorCount(markdown) = SlideCountFrom(1) - 1

\* three commits, without files, with one file and with two: four slides
C1_Witness ==
    /\ pc = "generated"
    /\ formatOptions.slideOrganization = "flat"
    /\ Len(commits) = 3
    /\ \E k \in 1..3 : Len(ChosenFiles(k)) = 0
    /\ \E k \in 1..3 : Len(ChosenFiles(k)) = 1
    /\ \E k \in 1..3 : Len(ChosenFiles(k)) = 2
    /\ SeparatorCount(markdown) = 3

\* C4 as stated: for an empty selection, no commits or commits without
\* chosen files, generateSlides returns the empty string in each of the
\* four modes.
C4_EmptySelectionEmptyOutput ==
    (pc = "generated" /\ NoFilesChosen) => markdown = <<>>

\* the heading of the commit-only slide of the k-th commit
CommitHeading(k) == <<"#", "#", " ">> \o Trim(SplitLines(commits[k].message)[1])

\* C4, amended: without commits generateSlides returns the empty string in
\* each of the four modes; for commits without chosen files it returns the
\* empty string in progressive mode only, and in flat, grouped and per-hunk
\* mode one commit-only slide for each commit, in order. It does not raise.
C4_EmptySelection ==
    (pc = "generated" /\ NoFilesChosen) =>
        /\ \A i \in 1..Len(markdown) : <<markdown[i]>> # Thrown
        /\ IF Len(commits) = 0 \/ formatOptions.slideOrganization = "progressive"
           THEN markdown = <<>>
           ELSE /\ Len(SplitOn(markdown, SlideSeparator)) = Len(commits)
                /\ \A k \in 1..Len(commits) :
                       StartsWith(SplitOn(markdown, SlideSeparator)[k], CommitHeading(k))

\* two commits without chosen files, per-hunk mode: two commit-only slides
C4_Witness ==
    /\ pc = "generated"
    /\ NoFilesChosen
    /\ Len(commits) = 2
    /\ formatOptions.slideOrganization = "per-hunk"
    /\ SeparatorCount(markdown) = 1


----------------------------------------------------------------------------
(* Claims about the rendering of hunk lines, checked under SpecDiff *)

\* the prefix the claim gives to a line of each classification
ClassificationPrefix(line) ==
    CASE line.type = "added" -> <<"+", " ">>
      [] line.type = "removed" -> <<"-", " ">>
      [] OTHER -> <<" ", " ">>

\* the hunk lines as the claim has them emitted in full-diff rendering
RECURSIVE PrefixedHunkLines(_, _)
PrefixedHunkLines(lines, i) ==
    IF i > Len(lines) THEN <<>>
    ELSE <<ClassificationPrefix(lines[i]) \o lines[i].content>>
         \o PrefixedHunkLines(lines, i + 1)

RECURSIVE PrefixedLines(_, _)
PrefixedLines(hs, i) ==
    IF i > Len(hs) THEN <<>>
    ELSE PrefixedHunkLines(hs[i].lines, 1)
         \o (IF i < Len(hs) THEN <<HunkSeparator>> ELSE <<>>)
         \o PrefixedLines(hs, i + 1)

\* C11 (as claimed): in full-diff rendering every emitted hunk line is the
\* line's text after its classification prefix, two spaces for a context
\* line, "- " for a removed line and "+ " for an added line; in
\* additions-only rendering the lines are emitted without prefix.
C11_FullDiffLinesArePrefixed ==
    pc = "diffFormatted" =>
        IF includeRemoved
        THEN content = deindent(Join(PrefixedLines(hunks, 1), <<"\n">>))
        ELSE content = deindent(Join(OutputLines(hunks, 0, FALSE), <<"\n">>))


----------------------------------------------------------------------------
(* Specification of the range compressor: a list of distinct line numbers  *)
(* is drawn, in any order, and cut into the added lines of two hunks;      *)
(* compressToRanges runs on the list, generateHighlightString on the hunks *)

\* most distinct line numbers of a list are MaxLineNumber + 2
LineNumberValues == (0 - 1)..MaxLineNumber

DistinctNumberLists ==
    {numbers \in UNION {[1..n -> LineNumberValues] : n \in 0..Cardinality(LineNumberValues)} :
        \A i \in 1..Len(numbers) : \A j \in 1..Len(numbers) :
            i # j => numbers[i] # numbers[j]}

\* a hunk of which generateHighlightString reads the added line numbers only
HunkWithAdded(numbers) == [addedLineNumbers |-> numbers]

HighlightModes == {"stepped", "all"}

InitRanges ==
    /\ pc = "rangesInput"
    /\ IdlePipeline /\ IdleDeindent /\ IdleSummary /\ IdleApp
    /\ inputNumbers \in DistinctNumberLists
    /\ \E cut \in 0..Len(inputNumbers) :
           highlightHunks = <<HunkWithAdded(SubSeq(inputNumbers, 1, cut)),
                              HunkWithAdded(SubSeq(inputNumbers, cut + 1, Len(inputNumbers)))>>
    /\ rangeTokens = <<>>
    /\ modeOfHighlights = "all"
    /\ highlightString = <<>>

CompressToRanges ==
    /\ pc = "rangesInput"
    /\ rangeTokens' = compressToRanges(inputNumbers)
    /\ pc' = "rangesCompressed"
    /\ UNCHANGED <<inputNumbers, highlightHunks, modeOfHighlights, highlightString>>
    /\ UNCHANGED <<pipelineVars, deindentVars, summaryVars, appVars>>

GenerateHighlightString(mode) ==
    /\ pc = "rangesInput"
    /\ modeOfHighlights' = mode
    /\ highlightString' = generateHighlightString(highlightHunks, mode)
    /\ pc' = "highlightsGenerated"
    /\ UNCHANGED <<inputNumbers, rangeTokens, highlightHunks>>
    /\ UNCHANGED <<pipelineVars, deindentVars, summaryVars, appVars>>

NextRanges ==
    \/ CompressToRanges
    \/ \E mode \in HighlightModes : GenerateHighlightString(mode)

SpecRanges == InitRanges /\ [][NextRanges]_vars

----------------------------------------------------------------------------
(* Claims about the range compressor, checked under SpecRanges *)

NumberSet(numbers) == {numbers[i] : i \in 1..Len(numbers)}

\* the numbers of a set that start a maximal run, and where the run ends
RunStarts(S) == {n \in S : n - 1 \notin S}
RunEnd(S, n) == Max({m \in S : m >= n /\ \A k \in n..m : k \in S})

\* "n" for a run of one number, "start-end" for a longer one
RunToken(S, n) ==
    IF RunEnd(S, n) = n THEN NumberToString(n)
    ELSE NumberToString(n) \o <<"-">> \o NumberToString(RunEnd(S, n))

\* the tokens of the maximal runs of a set, in ascending order
RunTokens(S) ==
    LET starts == Ascending(RunStarts(S))
    IN [i \in 1..Len(starts) |-> RunToken(S, starts[i])]

Swapped(numbers, i, j) ==
    [k \in 1..Len(numbers) |->
        IF k = i THEN numbers[j] ELSE IF k = j THEN numbers[i] ELSE numbers[k]]

\* C12: for distinct integers in any order compressToRanges returns the
\* maximal runs of consecutive numbers in ascending order, "n" for a run of
\* one and "start-end" for a longer run; exchanging any two numbers of the
\* input leaves the result as it is, and for the empty list it is empty.
C12_RangesAreMaximalRuns ==
    pc = "rangesCompressed" =>
        /\ rangeTokens = RunTokens(NumberSet(inputNumbers))
        /\ \A i \in 1..Len(inputNumbers) : \A j \in 1..Len(inputNumbers) :
               compressToRanges(Swapped(inputNumbers, i, j)) = rangeTokens
        /\ inputNumbers = <<>> => rangeTokens = <<>>

\* C12 witness: the list 3, 1, -1, 0, out of order and with a gap, giving a
\* run of three and a single number
C12_Witness ==
    /\ pc = "rangesCompressed"
    /\ inputNumbers = <<3, 1, 0 - 1, 0>>
    /\ rangeTokens = << <<"-", "1", "-", "1">>, <<"3">> >>


AddedOfHunks(hs) == UNION {NumberSet(hs[i].addedLineNumbers) : i \in 1..Len(hs)}

HighlightSeparatorOf(mode) == IF mode = "stepped" THEN <<"|">> ELSE <<",">>

\* C13: generateHighlightString returns the tokens of the maximal runs of
\* the added line numbers of all hunks taken together, joined with "|" in
\* stepped mode and with "," otherwise, so that adjacent added lines of
\* different hunks fall into one token; the result is empty exactly when no
\* hunk has an added line.
C13_HighlightStringJoinsRanges ==
    pc = "highlightsGenerated" =>
        /\ highlightString = Join(RunTokens(AddedOfHunks(highlightHunks)),
                                  HighlightSeparatorOf(modeOfHighlights))
        /\ highlightString = <<>>
               <=> \A i \in 1..Len(highlightHunks) :
                       highlightHunks[i].addedLineNumbers = <<>>

\* C13 witness: added lines 0 and 2 in the first hunk, 3 in the second, in
\* stepped mode: 2 and 3 share a token
C13_Witness ==
    /\ pc = "highlightsGenerated"
    /\ modeOfHighlights = "stepped"
    /\ highlightHunks[1].addedLineNumbers = <<0, 2>>
    /\ highlightHunks[2].addedLineNumbers = <<3>>
    /\ highlightString = <<"0", "|", "2", "-", "3">>


----------------------------------------------------------------------------
(* Specification of deindent: a text of spaces, tabs, letters and newlines *)
(* is drawn and deindent runs on it.                                       *)

TextAlphabet == {" ", "\t", "a", "\n"}
Texts == UNION {[1..n -> TextAlphabet] : n \in 0..MaxTextLength}

InitDeindent ==
    /\ pc = "deindentInput"
    /\ IdlePipeline /\ IdleRanges /\ IdleSummary /\ IdleApp
    /\ inputText \in Texts
    /\ deindented = <<>>

Deindent ==
    /\ pc = "deindentInput"
    /\ deindented' = deindent(inputText)
    /\ pc' = "deindentDone"
    /\ UNCHANGED inputText
    /\ UNCHANGED <<pipelineVars, rangeVars, summaryVars, appVars>>

NextDeindent == Deindent

SpecDeindent == InitDeindent /\ [][NextDeindent]_vars

----------------------------------------------------------------------------
(* Claims about deindent, checked under SpecDeindent *)

InputLines == SplitLines(inputText)
DeindentedLines == SplitLines(deindented)
IsBlank(line) == Trim(line) = <<>>
NonBlankLines(lines) == {i \in 1..Len(lines) : ~IsBlank(lines[i])}

\* the leading whitespace all non-blank lines share, 0 when all are blank
CommonIndent(lines) ==
    IF NonBlankLines(lines) = {} THEN 0
    ELSE Min({LeadingWhitespace(lines[i]) : i \in NonBlankLines(lines)})

\* C14: deindent is idempotent, deindent(deindent(x)) = deindent(x) for
\* every text x.
C14_DeindentIdempotent ==
    pc = "deindentDone" => deindent(deindented) = deindented

\* C14 witness: a text with a whitespace-only line and an indented line, of
\* which deindent has stripped the indentation
C14_Witness ==
    /\ pc = "deindentDone"
    /\ deindented # inputText
    /\ \E i \in 1..Len(InputLines) : IsBlank(InputLines[i]) /\ InputLines[i] # <<>>
    /\ deindent(deindented) = deindented

\* C15 (as claimed): blank lines, empty or whitespace-only, do not count for
\* the minimum indentation, and every blank line of the input is at the same
\* position of the output, unchanged.
C15_BlankLinesUntouched ==
    pc = "deindentDone" =>
        /\ Len(DeindentedLines) = Len(InputLines)
        /\ \A i \in NonBlankLines(InputLines) :
               DeindentedLines[i] = SliceFrom(InputLines[i], CommonIndent(InputLines))
        /\ \A i \in 1..Len(InputLines) :
               IsBlank(InputLines[i]) => DeindentedLines[i] = InputLines[i]

\* C15 (amended): blank lines do not count for the minimum indentation;
\* when it is positive every line, blank or not, loses that many leading
\* characters, so an empty line stays as it is, a whitespace-only line is
\* shortened, and each blank line of the input is a blank line at the same
\* position of the output.
C15_BlankLinesStayBlank ==
    pc = "deindentDone" =>
        /\ Len(DeindentedLines) = Len(InputLines)
        /\ \A i \in 1..Len(InputLines) :
               /\ DeindentedLines[i] = SliceFrom(InputLines[i], CommonIndent(InputLines))
               /\ IsBlank(InputLines[i]) <=> IsBlank(DeindentedLines[i])
               /\ InputLines[i] = <<>> => DeindentedLines[i] = <<>>

\* C15 witness: " a", a line holding a tab, and an empty line; the tab is
\* stripped with the indentation of the first line
C15_Witness ==
    /\ pc = "deindentDone"
    /\ inputText = <<" ", "a", "\n", "\t", "\n">>
    /\ deindented = <<"a", "\n", "\n">>


----------------------------------------------------------------------------
(* Claims about the organization modes, checked under SpecSlides *)

Generated(mode) == pc = "generated" /\ formatOptions.slideOrganization = mode

\* the top-level slides of the output
TopLevelSlides == IF markdown = <<>> THEN <<>> ELSE SplitOn(markdown, SlideSeparator)

\* the commit details as the commit's own slide shows them
RenderedCommitDetails(commit) ==
    renderTemplate(formatOptions.commitDetailsTemplate,
                   getCommitVariables(commit, formatOptions))

\* a file's sub-block: the slide template with the commit's and the file's
\* variables, the code block, and no commit details
SubBlock(commit, diff, diffs) ==
    renderTemplate(formatOptions.slideTemplate,
        (KeyCode :> generateCodeBlock(diff, formatOptions))
        @@ (KeyCommitDetails :> <<>>)
        @@ getFileVariables(diff, diffs)
        @@ getCommitVariables(commit, formatOptions))

MostFiles == Max({Len(files) : files \in FileChoices})
DiffPairs ==
    {p \in (1..Len(commits)) \X (1..MostFiles) : p[2] <= Len(ChosenFiles(p[1]))}
PathOf(p) == ChosenFiles(p[1])[p[2]].path
PairsOfPath(path) == {p \in DiffPairs : PathOf(p) = path}

\* the rank of a pair when the pairs are met commit by commit, file by file
MeetingRank(p) == p[1] * 10 + p[2]
\* the rank of a pair in progressive order: by the first meeting of its
\* path, then by commit
ProgressiveRank(p) ==
    Min({MeetingRank(q) : q \in PairsOfPath(PathOf(p))}) * 10 + p[1]
ProgressiveOrder ==
    LET ranks == Ascending({ProgressiveRank(p) : p \in DiffPairs})
    IN [j \in 1..Len(ranks) |-> CHOOSE p \in DiffPairs : ProgressiveRank(p) = ranks[j]]

\* the step of a pair in the history of its file, and the steps there are
StepOf(p) == Cardinality({q \in PairsOfPath(PathOf(p)) : q[1] <= p[1]})
StepsOf(p) == Cardinality(PairsOfPath(PathOf(p)))

\* " (i/N)", as the claim writes it
StepSuffix(i, n) ==
    <<" ", "(">> \o NumberToString(i) \o <<"/">> \o NumberToString(n) \o <<")">>

\* how the slide of a pair begins: the file name, with the suffix when the
\* file has several steps, and the commit details of the pair's commit
ProgressiveSlideStart(p) ==
    <<"#", "#", " ">> \o getFileName(PathOf(p))
    \o (IF StepsOf(p) > 1 THEN StepSuffix(StepOf(p), StepsOf(p)) ELSE <<>>)
    \o <<"\n", "\n">> \o RenderedCommitDetails(commits[p[1]]) \o <<"\n", "\n">>

\* C17: in progressive mode there is one top-level slide for each (commit,
\* file diff) pair, ordered by file path in order of first appearance and
\* within a file in commit order; the file name carries " (i/N)" exactly
\* when the file has N > 1 steps.
C17_ProgressiveOrder ==
    Generated("progressive") =>
        /\ Len(TopLevelSlides) = Cardinality(DiffPairs)
        /\ \A j \in 1..Len(TopLevelSlides) :
               /\ StartsWith(TopLevelSlides[j], ProgressiveSlideStart(ProgressiveOrder[j]))
               /\ StepsOf(ProgressiveOrder[j]) > 1
                      <=> Contains(SplitLines(TopLevelSlides[j])[1], <<" ", "(">>)

\* C17 witness: the first commit touches both files, the second the first
\* file only: two steps of the first file, then the second file, unlabelled
C17_Witness ==
    /\ Generated("progressive")
    /\ Len(commits) = 2
    /\ Len(ChosenFiles(1)) = 2
    /\ Len(ChosenFiles(2)) = 1
    /\ ProgressiveOrder = << <<1, 1>>, <<2, 1>>, <<1, 2>> >>
    /\ StartsWith(TopLevelSlides[2], <<"#", "#", " ", "a", ".", "t", "s", " ", "(", "2", "/",
        "2", ")", "\n">>)
    /\ StartsWith(TopLevelSlides[3], <<"#", "#", " ", "b", ".", "m", "d", "\n">>)


\* the slides of per-hunk mode in (commit, file, hunk) order: <<k, i, h>>
\* for the h-th hunk of the i-th file of the k-th commit, <<k, 0, 0>> for
\* the commit-only slide of a commit without files
HunkTriplesOfCommit(k) ==
    IF Len(ChosenFiles(k)) = 0 THEN << <<k, 0, 0>> >>
    ELSE Concat([i \in 1..Len(ChosenFiles(k)) |->
                    [h \in 1..Len(ChosenFiles(k)[i].hunks) |-> <<k, i, h>>]])
HunkTriples == Concat([k \in 1..Len(commits) |-> HunkTriplesOfCommit(k)])

DiffOfTriple(t) == ChosenFiles(t[1])[t[2]]
HunkOfTriple(t) == DiffOfTriple(t).hunks[t[3]]

\* the lines of a hunk that its slide shows, and the positions of the added
\* lines among them
ShowsRemoved == formatOptions.lineChangeDisplay # "additions-only"
IsShown(line) == line.type # "removed" \/ ShowsRemoved
ShownLines(hunk) == SelectSeq(hunk.lines, IsShown)
AddedPositions(hunk) ==
    {n \in 1..Len(ShownLines(hunk)) : ShownLines(hunk)[n].type = "added"}

\* " (hunk i/N)", as the claim writes it
HunkSuffix(i, n) ==
    <<" ", "(", "h", "u", "n", "k", " ">> \o NumberToString(i) \o <<"/">>
    \o NumberToString(n) \o <<")">>

\* how the slide of a hunk begins
HunkSlideStart(t) ==
    <<"#", "#", " ">> \o getFileName(DiffOfTriple(t).path)
    \o (IF Len(DiffOfTriple(t).hunks) > 1
        THEN HunkSuffix(t[3], Len(DiffOfTriple(t).hunks)) ELSE <<>>)
    \o <<"\n", "\n">> \o RenderedCommitDetails(commits[t[1]]) \o <<"\n", "\n">>

\* the opening fence of the slide of a hunk with added lines
HunkFenceLine(t) ==
    <<"BT", "BT", "BT">> \o DiffOfTriple(t).language \o <<" ", "[">>
    \o Join(RunTokens(AddedPositions(HunkOfTriple(t))),
            HighlightSeparatorOf(formatOptions.highlightMode))
    \o <<"]">>

\* C18: in per-hunk mode each commit with file diffs gives one top-level
\* slide for each hunk, in (commit, file, hunk) order; the highlights of a
\* slide are the positions of the added lines among the lines the slide
\* shows of its own hunk (removed lines not shown, and not counted, in
\* additions-only display); the file name carries " (hunk i/N)" exactly
\* when the file has N > 1 hunks.
C18_PerHunkSlides ==
    Generated("per-hunk") =>
        /\ Len(TopLevelSlides) = Len(HunkTriples)
        /\ \A j \in 1..Len(HunkTriples) :
               LET t == HunkTriples[j]
                   slideLines == SplitLines(TopLevelSlides[j])
               IN IF t[2] = 0 THEN StartsWith(TopLevelSlides[j], CommitHeading(t[1]))
                  ELSE /\ StartsWith(TopLevelSlides[j], HunkSlideStart(t))
                       /\ Len(DiffOfTriple(t).hunks) > 1
                              <=> Contains(slideLines[1], <<" ", "(", "h", "u", "n", "k",
                                  " ">>)
                       /\ AddedPositions(HunkOfTriple(t)) # {}
                              => \E n \in 1..Len(slideLines) : slideLines[n] = HunkFenceLine(t)

\* C18 witness: removed lines shown; the file of two hunks gives two slides,
\* the added line of the first hunk at position 2 after the removed line,
\* the added line of the second hunk at position 1
C18_Witness ==
    /\ Generated("per-hunk")
    /\ ShowsRemoved
    /\ Len(commits) = 1
    /\ Len(ChosenFiles(1)) = 2
    /\ Len(TopLevelSlides) = 3
    /\ Contains(TopLevelSlides[2], <<"b", ".", "m", "d", " ", "(", "h", "u", "n", "k", " ",
        "1", "/", "2", ")">>)
    /\ Contains(TopLevelSlides[2], <<"BT", "BT", "BT", "m", "a", "r", "k", "d", "o", "w", "n",
        " ", "[", "2", "]", "\n">>)
    /\ Contains(TopLevelSlides[3], <<"BT", "BT", "BT", "m", "a", "r", "k", "d", "o", "w", "n",
        " ", "[", "1", "]", "\n">>)


----------------------------------------------------------------------------
(* Specification of the file summary: the diffs of one commit are drawn,   *)
(* each of its own path, and getFileVariables runs for each of them.       *)

\* the path of the i-th file of the repository, every other one in a folder
PathAt(i) ==
    (IF i % 2 = 1 THEN <<"d", "/">> ELSE <<>>) \o <<"f">> \o NumberToString(i)

\* the GitFileDiff of the i-th file
DiffAt(i) ==
    [path |-> PathAt(i), hunks |-> <<>>, newContent |-> NullString,
     language |-> <<"t", "e", "x", "t">>]

Reversed(s) == [i \in 1..Len(s) |-> s[Len(s) + 1 - i]]

\* the files of a commit, in ascending or in descending order
CommitDiffLists ==
    LET lists == {[k \in 1..Len(Ascending(S)) |-> DiffAt(Ascending(S)[k])] :
                     S \in (SUBSET (1..MaxFiles)) \ {{}}}
    IN lists \cup {Reversed(l) : l \in lists}

InitSummary ==
    /\ pc = "summaryInput"
    /\ IdlePipeline /\ IdleRanges /\ IdleDeindent /\ IdleApp
    /\ commitDiffs \in CommitDiffLists
    /\ fileSummaries = <<>>

\* getFileVariables(diff, allDiffs) for each diff of the commit
GetFileVariables ==
    /\ pc = "summaryInput"
    /\ fileSummaries' = [i \in 1..Len(commitDiffs) |->
                            getFileVariables(commitDiffs[i], commitDiffs)[KeyFileSummary]]
    /\ pc' = "summaryDone"
    /\ UNCHANGED commitDiffs
    /\ UNCHANGED <<pipelineVars, rangeVars, deindentVars, appVars>>

NextSummary == GetFileVariables

SpecSummary == InitSummary /\ [][NextSummary]_vars

----------------------------------------------------------------------------
(* Claims about the file summary, checked under SpecSummary *)

\* the last component of a path
Basename(path) == SplitOn(path, <<"/">>)[Len(SplitOn(path, <<"/">>))]

\* the other files of the commit, in order, for the i-th file
OtherFiles(i) ==
    [j \in 1..(Len(commitDiffs) - 1) |-> commitDiffs[IF j < i THEN j ELSE j + 1]]

\* the base names of the first min(5, n - 1) other files
NamedFiles(i) ==
    [j \in 1..Min({5, Len(commitDiffs) - 1}) |-> Basename(OtherFiles(i)[j].path)]

\* C19: for a commit of n files of distinct paths the file summary is empty
\* when n = 1; otherwise it is "Also changed: ", the base names of the first
\* min(5, n - 1) other files in order, joined by ", ", and " and N more"
\* with N = n - 1 - 5 exactly when n - 1 > 5.
C19_FileSummary ==
    pc = "summaryDone" =>
        \A i \in 1..Len(commitDiffs) :
            LET n == Len(commitDiffs)
            IN fileSummaries[i] =
                   IF n = 1 THEN <<>>
                   ELSE <<"A", "l", "s", "o", " ", "c", "h", "a", "n", "g", "e", "d", ":",
                       " ">> \o Join(NamedFiles(i), <<",", " ">>)
                        \o (IF n - 1 > 5
                            THEN <<" ", "a", "n", "d",
                                " ">> \o NumberToString(n - 1 - 5) \o <<" ", "m", "o", "r",
                                "e">>
                            ELSE <<>>)

\* C19 witness: a commit of seven files, in descending order; the summary of
\* the first names five of the six others and counts one more
C19_Witness ==
    /\ pc = "summaryDone"
    /\ Len(commitDiffs) = 7
    /\ commitDiffs[1].path = PathAt(7)
    /\ fileSummaries[1] = <<"A", "l", "s", "o", " ", "c", "h", "a", "n", "g", "e", "d", ":",
        " ", "f", "6", ",", " ", "f", "5", ",", " ", "f", "4", ",", " ", "f", "3", ",", " ",
        "f", "2", " ", "a", "n", "d", " ", "1", " ", "m", "o", "r", "e">>


----------------------------------------------------------------------------
(* Claims about speaker notes, checked under SpecSlides *)

EndsWith(text, part) ==
    Len(text) >= Len(part) /\ SubSeq(text, Len(text) - Len(part) + 1, Len(text)) = part

SpeakerNotesWanted ==
    /\ "messageBodyAsSpeakerNotes" \in DOMAIN formatOptions
    /\ formatOptions.messageBodyAsSpeakerNotes

\* the slides of flat mode in order: <<k, i>> for the i-th file of the k-th
\* commit, <<k, 0>> for the commit-only slide of a commit without files
FlatPairs ==
    Concat([k \in 1..Len(commits) |->
               IF Len(ChosenFiles(k)) = 0 THEN << <<k, 0>> >>
               ELSE [i \in 1..Len(ChosenFiles(k)) |-> <<k, i>>]])

MessageBodyOf(k) == parseCommitMessage(commits[k].message).body

\* C20 (as claimed): with messageBodyAsSpeakerNotes true every file slide of
\* a commit whose message has a body ends with "\n\nnote: " and the body;
\* with the option false no slide holds "note:".
C20_SpeakerNotes ==
    Generated("flat") =>
        IF SpeakerNotesWanted
        THEN \A j \in 1..Len(FlatPairs) :
                 (FlatPairs[j][2] > 0 /\ MessageBodyOf(FlatPairs[j][1]) # <<>>)
                     => EndsWith(TopLevelSlides[j],
                                 <<"\n", "\n", "n", "o", "t", "e", ":",
                                     " ">> \o MessageBodyOf(FlatPairs[j][1]))
        ELSE ~Contains(markdown, <<"n", "o", "t", "e", ":">>)


----------------------------------------------------------------------------
(* GitService.getCommits, and the file filters of the modal and of the view *)

\* the largest number of commits the log of the model lists
MaxLogCommits == 3

\* new RegExp(pattern): the patterns of the model are literal texts, and the
\* constructor throws SyntaxError for a pattern with an unterminated group
SyntaxError == <<"SyntaxError">>
ValidRegExp(pattern) == ~Contains(pattern, <<"(">>)

\* RegExp.prototype.test, of a literal pattern
RegExpTest(pattern, path) == Contains(path, pattern)

\* parts[i] || ''
PartOrEmpty(parts, i) == IF i <= Len(parts) THEN parts[i] ELSE <<>>

\* new Date(text): the author dates of the model are written as whole numbers
DateOf(isoText) == ParseInt(isoText)

\* one line of the log, split on '|'
parseLogLine(line) ==
    LET parts == SplitOn(line, <<"|">>)
    IN [hash |-> PartOrEmpty(parts, 1),
        hashShort |-> PartOrEmpty(parts, 2),
        message |-> PartOrEmpty(parts, 3),
        author |-> PartOrEmpty(parts, 4),
        date |-> DateOf(PartOrEmpty(parts, 5)),
        files |-> <<>>]

NonEmptyLine(line) == Len(line) > 0

parseLogOutput(output) ==
    LET lines == SelectSeq(SplitLines(Trim(output)), NonEmptyLine)
    IN [i \in 1..Len(lines) |-> parseLogLine(lines[i])]

\* the repository of the model: three commits, the i-th with author date i
RepositoryHashes == <<<<"a", "1">>, <<"b", "2">>, <<"c", "3">>>>
RepositoryFiles ==
    <<<<[path |-> <<"s", "r", "c", "/", "a", ".", "t", "s">>, status |-> "A"]>>,
      <<[path |-> <<"d", "o", "c", ".", "m", "d">>, status |-> "M"]>>,
      <<[path |-> <<"s", "r", "c", "/", "c", ".", "t", "s">>, status |-> "A"], [path |-> <<"d",
          "o", "c", ".", "m", "d">>, status |-> "M"]>>>>
RepositoryIndex(hash) == CHOOSE i \in 1..Len(RepositoryHashes) : RepositoryHashes[i] = hash

\* git show --name-status of a commit, parsed
getCommitFiles(hash) == RepositoryFiles[RepositoryIndex(hash)]

\* a line of git log --format=%H|%h|%s|%an|%aI
GitLogLine(i) ==
    Join(<<RepositoryHashes[i], <<RepositoryHashes[i][1]>>, <<"F", "i", "x">>, <<"A", "n",
        "n">>,
           NumberToString(i)>>, <<"|">>) \o <<"\n">>
GitLog(listing) == Concat([k \in 1..Len(listing) |-> GitLogLine(listing[k])])

\* the loop of getCommits over the parsed commits, keeping those with a matching file
RECURSIVE FilterCommits(_, _)
FilterCommits(commitList, pattern) ==
    IF Len(commitList) = 0 THEN <<>>
    ELSE LET commit == commitList[1]
             matches(f) == RegExpTest(pattern, f.path)
             matchingFiles == SelectSeq(getCommitFiles(commit.hash), matches)
         IN (IF Len(matchingFiles) > 0
             THEN <<[commit EXCEPT !.files = matchingFiles]>>
             ELSE <<>>) \o FilterCommits(Tail(commitList), pattern)

Resolved(value) == [outcome |-> "resolved", value |-> value]
Rejected(error) == [outcome |-> "rejected", value |-> error]

\* getCommits, given what git log printed
getCommits(filter, log) ==
    LET commitList == parseLogOutput(log)
    IN IF Truthy(filter.fileRegex)
       THEN IF ~ValidRegExp(filter.fileRegex)
            THEN Rejected(SyntaxError)
            ELSE Resolved(Reversed(FilterCommits(commitList, filter.fileRegex)))
       ELSE Resolved(Reversed(commitList))

\* the include pattern: an invalid one is ignored
ApplyInclude(files, pattern) ==
    LET included(f) == RegExpTest(pattern, f.path)
    IN IF Truthy(pattern) /\ ValidRegExp(pattern) THEN SelectSeq(files, included) ELSE files

\* the exclude pattern: an invalid one is ignored
ApplyExclude(files, pattern) ==
    LET kept(f) == ~RegExpTest(pattern, f.path)
    IN IF Truthy(pattern) /\ ValidRegExp(pattern) THEN SelectSeq(files, kept) ELSE files

\* GitImportView.filterFiles, and the same two steps of GitImportModal.loadFilesForCommit
filterFiles(files, include, exclude) == ApplyExclude(ApplyInclude(files, include), exclude)

\* the listings of the backend: the commits of the repository, some or all, in any order
LogListings ==
    {listing \in UNION {[1..n -> 1..Len(RepositoryHashes)] : n \in 0..MaxLogCommits} :
        \A i, j \in 1..Len(listing) : i # j => listing[i] # listing[j]}

FileRegexChoices == {NullString, <<>>, <<"s", "r", "c">>, <<"m", "d">>, <<"x", "y", "z">>,
    <<"(", "s", "r", "c">>}
IncludeChoices == {<<>>, <<"s", "r", "c">>, <<"(", "s", "r", "c">>}
ExcludeChoices == {<<>>, <<"m", "d">>, <<"(", "m", "d">>}

InitService ==
    /\ pc = "service"
    /\ \E listing \in LogListings : logOutput = GitLog(listing)
    /\ fileRegex \in FileRegexChoices
    /\ includePattern \in IncludeChoices
    /\ excludePattern \in ExcludeChoices
    /\ returnedCommits = [outcome |-> "none", value |-> <<>>]
    /\ currentFiles = <<>>
    /\ IdlePipeline /\ IdleUtility /\ IdleModal

\* loadCommits calls getCommits with the filter of the modal
GetCommits ==
    /\ pc = "service"
    /\ returnedCommits' = getCommits([fileRegex |-> fileRegex], logOutput)
    /\ pc' = "commits"
    /\ UNCHANGED <<logOutput, fileRegex, includePattern, excludePattern, currentFiles>>
    /\ UNCHANGED <<pipelineVars, utilityVars, modalVars>>

\* the user opens the file list of a listed commit
LoadFilesForCommit ==
    /\ pc = "commits"
    /\ returnedCommits.outcome = "resolved"
    /\ \E k \in 1..Len(returnedCommits.value) :
          currentFiles' = filterFiles(getCommitFiles(returnedCommits.value[k].hash),
                                      includePattern, excludePattern)
    /\ pc' = "files"
    /\ UNCHANGED <<logOutput, fileRegex, includePattern, excludePattern, returnedCommits>>
    /\ UNCHANGED <<pipelineVars, utilityVars, modalVars>>

NextService == GetCommits \/ LoadFilesForCommit
SpecService == InitService /\ [][NextService]_vars

----------------------------------------------------------------------------
(* Claims about GitService.getCommits and the file filters, checked under SpecService *)

DatesAscend(commitList) ==
    \A i, j \in 1..Len(commitList) : i < j => commitList[i].date <= commitList[j].date

\* C21: getCommits returns the commits oldest first, whatever the order in which
\* the log lists them, without and with a file-regex filter
C21_ChronologicalAscending ==
    (pc # "service" /\ returnedCommits.outcome = "resolved")
        => DatesAscend(returnedCommits.value)

\* files is what an unset pattern would have left of the file list
UnfilteredBy(files, include, exclude) ==
    \E k \in 1..Len(RepositoryHashes) : files = filterFiles(RepositoryFiles[k], include,
        exclude)

\* C22: an invalid pattern is never an error outcome: an invalid file regex leaves
\* getCommits returning the unfiltered list, and an invalid include or exclude
\* pattern leaves the file list as if that pattern were unset
C22_InvalidRegexIgnored ==
    /\ (pc # "service" /\ Truthy(fileRegex) /\ ~ValidRegExp(fileRegex))
          => returnedCommits = getCommits([fileRegex |-> NullString], logOutput)
    /\ (pc = "files" /\ ~ValidRegExp(includePattern))
          => UnfilteredBy(currentFiles, <<>>, excludePattern)
    /\ (pc = "files" /\ ~ValidRegExp(excludePattern))
          => UnfilteredBy(currentFiles, includePattern, <<>>)


----------------------------------------------------------------------------
(* GitImportModal: selection, preview cache and preview generation *)

\* the number of commits the log of the opened repository lists
MaxPreviewCommits == 2
\* the number of actions the user takes
MaxUserActions == 5
\* the number of invocations of generatePreview that can be suspended at once
MaxPasses == 2

\* a JavaScript Set is an ordered list of entries; delete leaves an empty entry
\* behind, so that an iteration under way keeps its position
DeletedEntry == <<>>
SetHas(entries, path) == \E i \in 1..Len(entries) : entries[i] = path
SetAdd(entries, path) == IF SetHas(entries, path) THEN entries ELSE Append(entries, path)
SetDelete(entries, path) ==
    [i \in 1..Len(entries) |-> IF entries[i] = path THEN DeletedEntry ELSE entries[i]]
LiveEntry(entry) == entry # DeletedEntry
SetValues(entries) == SelectSeq(entries, LiveEntry)
SetSize(entries) == Len(SetValues(entries))

\* the next entry a for-of loop visits after position, 0 at the end of the list
NextEntry(entries, position) ==
    IF \E i \in (position + 1)..Len(entries) : LiveEntry(entries[i])
    THEN CHOOSE i \in (position + 1)..Len(entries) :
            /\ LiveEntry(entries[i])
            /\ \A j \in (position + 1)..(i - 1) : ~LiveEntry(entries[j])
    ELSE 0

\* the values of the options in the settings panel of the model
ContextLinesChoices == {3, 5}
SlideOrganizationChoices == {"flat", "grouped"}
DefaultPreviewOptions ==
    [contextLines |-> 3, showFullFile |-> FALSE, slideOrganization |-> "flat"]

\* `${commit.hash}-${contextLines}-${showFullFile}`, kept as its three parts
CacheKey(hash, options) == <<hash, options.contextLines, options.showFullFile>>

\* what the panes show: one of the three fixed texts, or the slides generated
\* from the commits, their diffs and the options
Pane(kind) == [kind |-> kind, commits |-> <<>>, fileDiffs |-> <<>>,
               options |-> DefaultPreviewOptions]
SlidesPane(commitList, fileDiffsMap, options) ==
    [kind |-> "slides", commits |-> commitList, fileDiffs |-> fileDiffsMap,
     options |-> options]

\* a GitFileDiff, as the calls that produced it: getFileDiff with contextLines,
\* and getFileContent or none
FileDiffOf(hash, path, contextLines, contentFetched) ==
    [hash |-> hash, path |-> path, contextLines |-> contextLines,
     contentFetched |-> contentFetched]

\* an invocation of generatePreview that is not running
IdlePass ==
    [stage |-> "idle", selectedCommits |-> <<>>, commitIndex |-> 0, files |-> 0,
     position |-> 0, filePath |-> <<>>, cachedDiffs |-> 0, diffs |-> <<>>,
     fileDiffs |-> <<>>, contextLines |-> 0]

\* cachedDiffs.find(d => d.path === filePath): its index, 0 when there is none
FindDiff(diffList, path) ==
    IF \E i \in 1..Len(diffList) : diffList[i].path = path
    THEN CHOOSE i \in 1..Len(diffList) :
            /\ diffList[i].path = path
            /\ \A j \in 1..(i - 1) : diffList[j].path # path
    ELSE 0

\* The loops of generatePreview run from where the pass stands to its next
\* await or to the end of the commits. run holds the pass, the cache and the
\* arrays as the run leaves them; the selection and the options do not change
\* during a run.
RECURSIVE RunFiles(_, _, _)
RECURSIVE RunCommits(_, _, _)
RunFiles(run, sets, options) ==
    LET pass == run.pass
        hash == pass.selectedCommits[pass.commitIndex]
        next == NextEntry(sets[pass.files], pass.position)
    IN IF next = 0
       THEN RunCommits([run EXCEPT !.pass.fileDiffs = Append(@, <<hash, pass.diffs>>),
                                   !.pass.commitIndex = @ + 1], sets, options)
       ELSE LET found == FindDiff(run.arrays[pass.cachedDiffs], sets[pass.files][next])
            IN IF found # 0
               THEN RunFiles([run EXCEPT !.pass.position = next,
                                         !.pass.diffs =
                                             Append(@, run.arrays[pass.cachedDiffs][found])],
                             sets, options)
               ELSE [run EXCEPT !.pass.position = next,
                                !.pass.filePath = sets[pass.files][next],
                                !.pass.stage = "diff",
                                !.pass.contextLines = options.contextLines]

RunCommits(run, sets, options) ==
    LET pass == run.pass
    IN IF pass.commitIndex > Len(pass.selectedCommits)
       THEN [run EXCEPT !.pass.stage = "finished"]
       ELSE LET hash == pass.selectedCommits[pass.commitIndex]
                key == CacheKey(hash, options)
            IN IF hash \notin DOMAIN selectedFiles \/ SetSize(sets[selectedFiles[hash]]) = 0
               THEN RunCommits([run EXCEPT !.pass.commitIndex = @ + 1], sets, options)
               ELSE IF key \in DOMAIN run.cache
               THEN RunFiles([run EXCEPT !.pass.files = selectedFiles[hash],
                                         !.pass.position = 0,
                                         !.pass.diffs = <<>>,
                                         !.pass.cachedDiffs = run.cache[key]],
                             sets, options)
               ELSE RunFiles([run EXCEPT !.pass.files = selectedFiles[hash],
                                         !.pass.position = 0,
                                         !.pass.diffs = <<>>,
                                         !.pass.cachedDiffs = Len(run.arrays) + 1,
                                         !.arrays = Append(@, <<>>),
                                         !.cache = (key :> (Len(run.arrays) + 1)) @@ @],
                             sets, options)


\* the groups of the modal's variables
selectionVars == <<commitChecked, selectedCommitHashes, selectedFiles, fileSets,
                   displayedFiles>>
cacheVars == <<previewCache, diffArrays, fetchedSinceClear>>
passVars == <<isGeneratingPreview, passes, panes>>
notModalVars == <<pipelineVars, utilityVars, serviceVars>>

NoCommit == <<>>
NoFileList == [commit |-> NoCommit, files |-> 0, checked |-> <<>>]
EmptyMap == <<>>

\* the modal as constructed: no repository, nothing selected, nothing cached
InitPreview ==
    /\ pc = "preview"
    /\ repositoryState = "closed"
    /\ loadedCommits = <<>>
    /\ commitChecked = EmptyMap
    /\ selectedCommitHashes = {}
    /\ selectedFiles = EmptyMap
    /\ fileSets = <<>>
    /\ displayedFiles = NoFileList
    /\ previewOptions = DefaultPreviewOptions
    /\ previewCache = EmptyMap
    /\ diffArrays = <<>>
    /\ isGeneratingPreview = FALSE
    /\ debouncePending = FALSE
    /\ passes = [p \in 1..MaxPasses |-> IdlePass]
    /\ panes = Pane("empty")
    /\ userActions = 0
    /\ fetchedSinceClear = [fetched |-> {}, stale |-> {}]
    /\ fetchedTwice = FALSE
    /\ changedInFlight = FALSE
    /\ IdlePipeline /\ IdleUtility /\ IdleService

\* one more action of the user; it changes the selection or an option
UserStep ==
    /\ userActions < MaxUserActions
    /\ userActions' = userActions + 1
    /\ changedInFlight' = (changedInFlight \/ isGeneratingPreview)

\* the log of the fetches when the cache is cleared: the fetches under way were
\* called before the clear
FetchLogAfterClear ==
    [fetched |-> {}, stale |-> {p \in 1..MaxPasses : passes[p].stage \in {"diff", "content"}}]

\* a handler that forgets previewCache.clear()
CacheLeftAsItIs(cache) == cache

\* previewCache.clear() of openRepository, loadCommits and the two option handlers
CacheAfterOpenRepository(cache) == EmptyMap

CacheAfterLoadCommits(cache) == EmptyMap

CacheAfterContextLinesChange(cache) == EmptyMap

CacheAfterCodeDisplayChange(cache) == EmptyMap

\* openRepository, from the valid repository check to await loadBranches()
OpenRepository ==
    /\ pc = "preview"
    /\ repositoryState \in {"closed", "ready"}
    /\ UserStep
    /\ previewCache' = CacheAfterOpenRepository(previewCache)
    /\ fetchedSinceClear' = FetchLogAfterClear
    /\ loadedCommits' = <<>>
    /\ selectedCommitHashes' = {}
    /\ selectedFiles' = EmptyMap
    /\ displayedFiles' = NoFileList
    /\ panes' = Pane("empty")
    /\ repositoryState' = "branches"
    /\ UNCHANGED <<commitChecked, fileSets, previewOptions, diffArrays, isGeneratingPreview,
                   debouncePending, passes, fetchedTwice, pc, notModalVars>>

\* loadCommits up to await getCommits: as the last step of openRepository, or
\* when the user changes the commit filter
LoadCommits ==
    /\ pc = "preview"
    /\ \/ /\ repositoryState = "branches"
          /\ UNCHANGED userActions
       \/ /\ repositoryState = "ready"
          /\ userActions < MaxUserActions
          /\ userActions' = userActions + 1
    /\ commitChecked' = EmptyMap
    /\ previewCache' = CacheAfterLoadCommits(previewCache)
    /\ fetchedSinceClear' = FetchLogAfterClear
    /\ repositoryState' = "commits"
    /\ UNCHANGED <<loadedCommits, selectedCommitHashes, selectedFiles, fileSets,
                   displayedFiles, previewOptions, diffArrays, debouncePending, passVars,
                   fetchedTwice, changedInFlight, pc, notModalVars>>

\* what git log prints for the opened repository: its newest commits, newest first
PreviewLog ==
    GitLog([k \in 1..MaxPreviewCommits |-> Len(RepositoryHashes) + 1 - k])
HashesOf(commitList) == [i \in 1..Len(commitList) |-> commitList[i].hash]

\* loadCommits after getCommits: the commit list is drawn again
CommitsLoaded ==
    /\ pc = "preview"
    /\ repositoryState = "commits"
    /\ LET result == getCommits([fileRegex |-> NullString], PreviewLog)
           hashes == HashesOf(result.value)
       IN /\ loadedCommits' = hashes
          /\ commitChecked' = [h \in {hashes[i] : i \in 1..Len(hashes)} |->
                                  h \in selectedCommitHashes]
    /\ debouncePending' = TRUE
    /\ repositoryState' = "ready"
    /\ UNCHANGED <<selectedCommitHashes, selectedFiles, fileSets, displayedFiles,
                   previewOptions, cacheVars, passVars, userActions, fetchedTwice,
                   changedInFlight, pc, notModalVars>>

\* loadCommits when getCommits is rejected: 'Failed to load commits'
CommitsFailed ==
    /\ pc = "preview"
    /\ repositoryState = "commits"
    /\ repositoryState' = "ready"
    /\ UNCHANGED <<loadedCommits, selectionVars, previewOptions, cacheVars, passVars,
                   debouncePending, userActions, fetchedTwice, changedInFlight, pc,
                   notModalVars>>

\* updateCommitCheckbox(hash, true): the checkbox of the row of that commit of this.commits
updateCommitCheckbox(checked, hash) ==
    IF hash \in DOMAIN checked /\ (\E i \in 1..Len(loadedCommits) : loadedCommits[i] = hash)
    THEN [checked EXCEPT ![hash] = TRUE]
    ELSE checked

\* the change handler of a commit's checkbox
ToggleCommitCheckbox(hash) ==
    /\ pc = "preview"
    /\ hash \in DOMAIN commitChecked
    /\ UserStep
    /\ commitChecked' = [commitChecked EXCEPT ![hash] = ~@]
    /\ IF commitChecked'[hash]
       THEN /\ selectedCommitHashes' = selectedCommitHashes \cup {hash}
            /\ UNCHANGED selectedFiles
       ELSE /\ selectedCommitHashes' = selectedCommitHashes \ {hash}
            /\ selectedFiles' = [h \in DOMAIN selectedFiles \ {hash} |-> selectedFiles[h]]
    /\ debouncePending' = TRUE
    /\ UNCHANGED <<repositoryState, loadedCommits, fileSets, displayedFiles, previewOptions,
                   cacheVars, passVars, fetchedTwice, pc, notModalVars>>

PathsOf(files) == {files[i].path : i \in 1..Len(files)}

\* selectCommit and loadFilesForCommit: the file list of the commit is drawn,
\* its handlers holding the Set that selectedFiles maps the commit to
SelectCommit(hash) ==
    /\ pc = "preview"
    /\ hash \in DOMAIN commitChecked
    /\ repositoryState # "closed"
    /\ userActions < MaxUserActions
    /\ userActions' = userActions + 1
    /\ LET files == filterFiles(getCommitFiles(hash), includePattern, excludePattern)
           isNew == hash \notin DOMAIN selectedFiles
           id == IF isNew THEN Len(fileSets) + 1 ELSE selectedFiles[hash]
           sets == IF isNew THEN Append(fileSets, <<>>) ELSE fileSets
       IN /\ fileSets' = sets
          /\ selectedFiles' = IF isNew THEN (hash :> id) @@ selectedFiles ELSE selectedFiles
          /\ displayedFiles' = [commit |-> hash, files |-> id,
                                checked |-> [path \in PathsOf(files) |->
                                                SetHas(sets[id], path)]]
    /\ UNCHANGED <<repositoryState, loadedCommits, commitChecked, selectedCommitHashes,
                   previewOptions, cacheVars, passVars, debouncePending, fetchedTwice,
                   changedInFlight, pc, notModalVars>>

\* the change handler of a file's checkbox
ToggleFileCheckbox(path) ==
    /\ pc = "preview"
    /\ path \in DOMAIN displayedFiles.checked
    /\ UserStep
    /\ displayedFiles' = [displayedFiles EXCEPT !.checked[path] = ~@]
    /\ IF displayedFiles'.checked[path]
       THEN /\ fileSets' = [fileSets EXCEPT ![displayedFiles.files] = SetAdd(@, path)]
            /\ selectedCommitHashes' = selectedCommitHashes \cup {displayedFiles.commit}
            /\ commitChecked' = updateCommitCheckbox(commitChecked, displayedFiles.commit)
       ELSE /\ fileSets' = [fileSets EXCEPT ![displayedFiles.files] = SetDelete(@, path)]
            /\ UNCHANGED <<selectedCommitHashes, commitChecked>>
    /\ debouncePending' = TRUE
    /\ UNCHANGED <<repositoryState, loadedCommits, selectedFiles, previewOptions, cacheVars,
                   passVars, fetchedTwice, pc, notModalVars>>

\* the change handler of the slide organization dropdown
SetSlideOrganization(value) ==
    /\ pc = "preview"
    /\ value # previewOptions.slideOrganization
    /\ UserStep
    /\ previewOptions' = [previewOptions EXCEPT !.slideOrganization = value]
    /\ debouncePending' = TRUE
    /\ UNCHANGED <<repositoryState, loadedCommits, selectionVars, cacheVars, passVars,
                   fetchedTwice, pc, notModalVars>>

\* the change handler of the code display dropdown ('diff-all' or 'full-all')
SetCodeDisplay(value) ==
    /\ pc = "preview"
    /\ value # previewOptions.showFullFile
    /\ UserStep
    /\ previewOptions' = [previewOptions EXCEPT !.showFullFile = value]
    /\ previewCache' = CacheAfterCodeDisplayChange(previewCache)
    /\ fetchedSinceClear' = FetchLogAfterClear
    /\ debouncePending' = TRUE
    /\ UNCHANGED <<repositoryState, loadedCommits, selectionVars, diffArrays, passVars,
                   fetchedTwice, pc, notModalVars>>

\* the change handler of the context lines slider
SetContextLines(value) ==
    /\ pc = "preview"
    /\ value # previewOptions.contextLines
    /\ UserStep
    /\ previewOptions' = [previewOptions EXCEPT !.contextLines = value]
    /\ previewCache' = CacheAfterContextLinesChange(previewCache)
    /\ fetchedSinceClear' = FetchLogAfterClear
    /\ debouncePending' = TRUE
    /\ UNCHANGED <<repositoryState, loadedCommits, selectionVars, diffArrays, passVars,
                   fetchedTwice, pc, notModalVars>>


\* this.commits.filter(c => this.selectedCommitHashes.has(c.hash))
IsSelectedCommit(hash) == hash \in selectedCommitHashes
SelectedCommits == SelectSeq(loadedCommits, IsSelectedCommit)

\* the hasFiles loop of generatePreview
HasFiles(commitList) ==
    \E i \in 1..Len(commitList) :
        /\ commitList[i] \in DOMAIN selectedFiles
        /\ SetSize(fileSets[selectedFiles[commitList[i]]]) > 0

\* generatePreview without its guard
NoPassInFlight == FALSE

\* if (this.isGeneratingPreview) return;
PassInFlight == isGeneratingPreview

\* generatePreview with a finally that leaves the flag set
FlagLeftSet == TRUE

\* finally { this.isGeneratingPreview = false; }
FlagAfterPass == FALSE

\* a pass after one of its runs: suspended in the next fetch, or over, with
\* the slides written to the panes
AfterRun(p, run) ==
    /\ previewCache' = run.cache
    /\ diffArrays' = run.arrays
    /\ IF run.pass.stage = "finished"
       THEN /\ panes' = SlidesPane(run.pass.selectedCommits, run.pass.fileDiffs,
                                   previewOptions)
            /\ isGeneratingPreview' = FlagAfterPass
            /\ passes' = [passes EXCEPT ![p] = IdlePass]
       ELSE /\ panes' = IF passes[p].stage = "idle" THEN Pane("generating") ELSE panes
            /\ isGeneratingPreview' = TRUE
            /\ passes' = [passes EXCEPT ![p] = run.pass]

\* the timer of debouncedUpdatePreview fires: generatePreview up to its first await
GeneratePreview ==
    /\ pc = "preview"
    /\ debouncePending
    /\ debouncePending' = FALSE
    /\ IF repositoryState = "closed"
       THEN UNCHANGED <<cacheVars, passVars, fetchedTwice, changedInFlight>>
       ELSE IF Len(SelectedCommits) = 0 \/ ~HasFiles(SelectedCommits)
       THEN /\ panes' = Pane("empty")
            /\ UNCHANGED <<cacheVars, isGeneratingPreview, passes, fetchedTwice,
                           changedInFlight>>
       ELSE IF PassInFlight
       THEN UNCHANGED <<cacheVars, passVars, fetchedTwice, changedInFlight>>
       ELSE /\ \E p \in 1..MaxPasses :
                  /\ passes[p].stage = "idle"
                  /\ \A q \in 1..(p - 1) : passes[q].stage # "idle"
                  /\ AfterRun(p, RunCommits([pass |-> [IdlePass EXCEPT
                                                          !.stage = "running",
                                                          !.selectedCommits = SelectedCommits,
                                                          !.commitIndex = 1],
                                             cache |-> previewCache,
                                             arrays |-> diffArrays],
                                            fileSets, previewOptions))
            /\ changedInFlight' = FALSE
            /\ UNCHANGED <<fetchedSinceClear, fetchedTwice>>
    /\ UNCHANGED <<repositoryState, loadedCommits, selectionVars, previewOptions,
                   userActions, pc, notModalVars>>

\* the diff of the file is built and pushed to the array the pass holds, and
\* the loops go on
StoreDiff(p, contentFetched) ==
    LET pass == passes[p]
        hash == pass.selectedCommits[pass.commitIndex]
        diff == FileDiffOf(hash, pass.filePath, pass.contextLines, contentFetched)
        fetched == <<hash, pass.filePath, pass.contextLines, contentFetched>>
    IN /\ fetchedTwice' =
             (fetchedTwice \/ (p \notin fetchedSinceClear.stale
                                  /\ fetched \in fetchedSinceClear.fetched))
       /\ fetchedSinceClear' =
             IF p \in fetchedSinceClear.stale
             THEN [fetchedSinceClear EXCEPT !.stale = @ \ {p}]
             ELSE [fetchedSinceClear EXCEPT !.fetched = @ \cup {fetched}]
       /\ AfterRun(p, RunFiles([pass |-> [pass EXCEPT !.diffs = Append(@, diff),
                                                      !.stage = "running"],
                                cache |-> previewCache,
                                arrays |-> [diffArrays EXCEPT ![pass.cachedDiffs] =
                                               Append(@, diff)]],
                               fileSets, previewOptions))

\* await getFileDiff is over: getFileContent is called for the full file, or
\* the diff is stored without content
DiffResolved(p) ==
    /\ pc = "preview"
    /\ passes[p].stage = "diff"
    /\ IF previewOptions.showFullFile
       THEN /\ passes' = [passes EXCEPT ![p].stage = "content"]
            /\ UNCHANGED <<cacheVars, isGeneratingPreview, panes, fetchedTwice>>
       ELSE StoreDiff(p, FALSE)
    /\ UNCHANGED <<repositoryState, loadedCommits, selectionVars, previewOptions,
                   debouncePending, userActions, changedInFlight, pc, notModalVars>>

\* await getFileContent is over, with the content or with null
ContentResolved(p) ==
    /\ pc = "preview"
    /\ passes[p].stage = "content"
    /\ StoreDiff(p, TRUE)
    /\ UNCHANGED <<repositoryState, loadedCommits, selectionVars, previewOptions,
                   debouncePending, userActions, changedInFlight, pc, notModalVars>>

\* getFileDiff is rejected: catch writes 'Failed to generate preview', finally
\* clears the flag
DiffRejected(p) ==
    /\ pc = "preview"
    /\ passes[p].stage = "diff"
    /\ panes' = Pane("failed")
    /\ isGeneratingPreview' = FlagAfterPass
    /\ passes' = [passes EXCEPT ![p] = IdlePass]
    /\ fetchedSinceClear' = [fetchedSinceClear EXCEPT !.stale = @ \ {p}]
    /\ UNCHANGED <<repositoryState, loadedCommits, selectionVars, previewOptions,
                   previewCache, diffArrays, debouncePending, userActions, fetchedTwice,
                   changedInFlight, pc, notModalVars>>

CommitHashChoices == {RepositoryHashes[i] : i \in 1..Len(RepositoryHashes)}
FilePathChoices ==
    UNION {PathsOf(RepositoryFiles[i]) : i \in 1..Len(RepositoryFiles)}

NextPreview ==
    \/ OpenRepository
    \/ LoadCommits
    \/ CommitsLoaded
    \/ CommitsFailed
    \/ \E hash \in CommitHashChoices : ToggleCommitCheckbox(hash)
    \/ \E hash \in CommitHashChoices : SelectCommit(hash)
    \/ \E path \in FilePathChoices : ToggleFileCheckbox(path)
    \/ \E value \in SlideOrganizationChoices : SetSlideOrganization(value)
    \/ \E value \in BOOLEAN : SetCodeDisplay(value)
    \/ \E value \in ContextLinesChoices : SetContextLines(value)
    \/ GeneratePreview
    \/ \E p \in 1..MaxPasses : DiffResolved(p)
    \/ \E p \in 1..MaxPasses : ContentResolved(p)
    \/ \E p \in 1..MaxPasses : DiffRejected(p)
SpecPreview == InitPreview /\ [][NextPreview]_vars

TypeOKPreview == pc = "preview"


----------------------------------------------------------------------------
(* Claims about the import modal, checked under SpecPreview *)

\* the step in which the user checks the checkbox of path in the file list on screen
ChecksFile(path) ==
    /\ displayedFiles.commit # NoCommit
    /\ displayedFiles'.commit = displayedFiles.commit
    /\ path \in DOMAIN displayedFiles.checked
    /\ path \in DOMAIN displayedFiles'.checked
    /\ ~displayedFiles.checked[path]
    /\ displayedFiles'.checked[path]
    /\ userActions' = userActions + 1

\* C28: after the user checks a file of the file list of commit C on screen,
\* selectedFiles maps C to a set that holds the path of the file, and C is
\* among the selected commits
C28_CheckedFileIsSelected ==
    [][\A path \in FilePathChoices :
          ChecksFile(path) =>
             /\ displayedFiles.commit \in selectedCommitHashes'
             /\ displayedFiles.commit \in DOMAIN selectedFiles'
             /\ SetHas(fileSets'[selectedFiles'[displayedFiles.commit]], path)]_vars


RunningPasses == {p \in 1..MaxPasses : passes[p].stage # "idle"}
NonEmptySelection == Len(SelectedCommits) > 0 /\ HasFiles(SelectedCommits)

\* the step in which the timer fires and generatePreview is invoked
InvokesGeneratePreview == debouncePending /\ ~debouncePending'

\* C23: at most one pass is between setting and clearing isGeneratingPreview,
\* and an invocation with a non-empty selection during a pass returns at once:
\* no fetch is started, previewCache and the panes are left as they are
C23_OnePassAtATime ==
    /\ [](/\ Cardinality(RunningPasses) <= 1
          /\ isGeneratingPreview <=> RunningPasses # {})
    /\ [][(InvokesGeneratePreview /\ isGeneratingPreview /\ NonEmptySelection)
             => UNCHANGED <<passes, previewCache, diffArrays, panes,
                            isGeneratingPreview>>]_vars

\* an invocation with a non-empty selection was dropped during the pass in flight
C23_Witness ==
    /\ isGeneratingPreview
    /\ changedInFlight
    /\ ~debouncePending
    /\ NonEmptySelection
    /\ panes.kind = "generating"


\* a step of one of the four actions that clear the cache: openRepository,
\* loadCommits, and the handlers of the context lines and code display options
ClearingStep ==
    \/ repositoryState' = "branches" /\ repositoryState # "branches"
    \/ repositoryState' = "commits" /\ repositoryState # "commits"
    \/ previewOptions'.contextLines # previewOptions.contextLines
    \/ previewOptions'.showFullFile # previewOptions.showFullFile

IsPrefixOf(short, long) ==
    /\ Len(short) <= Len(long)
    /\ \A i \in 1..Len(short) : long[i] = short[i]

\* every key keeps the array it maps to, and that array keeps what it holds
CacheOnlyGrows ==
    \A key \in DOMAIN previewCache :
        /\ key \in DOMAIN previewCache'
        /\ previewCache'[key] = previewCache[key]
        /\ IsPrefixOf(diffArrays[previewCache[key]], diffArrays'[previewCache[key]])

\* C24: previewCache is empty right after opening a repository, starting a
\* commit reload, changing the context lines and changing the code display;
\* every other step keeps each entry, whose list only grows
C24_CacheClearedOnlyByFourActions ==
    [][IF ClearingStep THEN DOMAIN previewCache' = {} ELSE CacheOnlyGrows]_vars

\* a clear has emptied a cache that held a fetched diff, during a commit reload
C24_Witness ==
    /\ DOMAIN previewCache = {}
    /\ repositoryState = "commits"
    /\ RunningPasses = {}
    /\ \E i \in 1..Len(diffArrays) : Len(diffArrays[i]) > 0


CachedArrays == {previewCache[key] : key \in DOMAIN previewCache}

\* C27: every diff in the list that previewCache holds under (hash, c, f) is a
\* diff of that commit, fetched with context width c, with its full content
\* fetched exactly when f holds
C27_CachedDiffsMatchTheirKey ==
    \A key \in DOMAIN previewCache :
        \A i \in 1..Len(diffArrays[previewCache[key]]) :
            LET diff == diffArrays[previewCache[key]][i]
            IN /\ diff.hash = key[1]
               /\ diff.contextLines = key[2]
               /\ diff.contentFetched = key[3]

\* an option was changed during a fetch, whose diff went to an array the cache
\* no longer holds, and the cache holds a diff fetched since
C27_Witness ==
    /\ \E i \in 1..Len(diffArrays) : i \notin CachedArrays /\ Len(diffArrays[i]) > 0
    /\ \E key \in DOMAIN previewCache :
          /\ Len(diffArrays[previewCache[key]]) > 0
          /\ \E i \in 1..Len(diffArrays) :
                /\ i \notin CachedArrays
                /\ \E k \in 1..Len(diffArrays[i]) :
                      /\ diffArrays[i][k].hash = key[1]
                      /\ <<diffArrays[i][k].contextLines, diffArrays[i][k].contentFetched>>
                            # <<key[2], key[3]>>


\* the step in which pass p calls getFileDiff
CallsGetFileDiff(p) ==
    /\ passes'[p].stage = "diff"
    /\ \/ passes[p].stage # "diff"
       \/ passes'[p].position # passes[p].position
       \/ passes'[p].commitIndex # passes[p].commitIndex

\* after the step, the list of the cache under the key of the options in force
\* holds no diff of the file the pass is fetching
NotCachedAtCall(p) ==
    LET pass == passes'[p]
        key == CacheKey(pass.selectedCommits[pass.commitIndex], previewOptions')
    IN \/ key \notin DOMAIN previewCache'
       \/ FindDiff(diffArrays'[previewCache'[key]], pass.filePath) = 0

\* C25: getFileDiff is called for a file only when the cache list under the
\* key holds no diff of it, and between two clears of the cache no (commit,
\* file, context lines, full file) is fetched successfully twice
C25_FetchedAtMostOncePerClear ==
    /\ [][\A p \in 1..MaxPasses : CallsGetFileDiff(p) => NotCachedAtCall(p)]_vars
    /\ []~fetchedTwice


\* no pass is running, no invocation is pending and no commit list is loading
Quiescent ==
    /\ RunningPasses = {}
    /\ ~isGeneratingPreview
    /\ ~debouncePending
    /\ repositoryState = "ready"

\* the diffs of the files selected for a commit, as the options in force ask for them
ExpectedDiffs(hash) ==
    LET paths == SetValues(fileSets[selectedFiles[hash]])
    IN [i \in 1..Len(paths) |->
           FileDiffOf(hash, paths[i], previewOptions.contextLines,
                      previewOptions.showFullFile)]

HasSelectedFiles(hash) ==
    hash \in DOMAIN selectedFiles /\ SetSize(fileSets[selectedFiles[hash]]) > 0

\* what a pass over the selection and the options in force writes to the panes
ExpectedPanes ==
    IF ~NonEmptySelection
    THEN Pane("empty")
    ELSE LET withFiles == SelectSeq(SelectedCommits, HasSelectedFiles)
         IN SlidesPane(SelectedCommits,
                       [i \in 1..Len(withFiles) |->
                           <<withFiles[i], ExpectedDiffs(withFiles[i])>>],
                       previewOptions)

\* C26: when the selection or an option has changed during a pass, then once
\* no pass is running and no invocation is pending the panes show the slides
\* of the latest selection and options, or the empty state when no file is
\* selected (or the failure text when a fetch has failed)
C26_PanesShowLatestSelection ==
    (changedInFlight /\ Quiescent) => (panes = ExpectedPanes \/ panes.kind = "failed")


\* a fetch that was called settles: the promise of getFileDiff is resolved or
\* rejected when the git process ends, that of getFileContent is resolved
FetchSettles(p) == DiffResolved(p) \/ DiffRejected(p) \/ ContentResolved(p)
FairSpecPreview ==
    SpecPreview /\ \A p \in 1..MaxPasses : WF_vars(FetchSettles(p))

\* the step of an invocation of generatePreview that finds the flag clear and
\* a non-empty selection
AcceptableInvocation ==
    /\ InvokesGeneratePreview
    /\ ~isGeneratingPreview
    /\ repositoryState # "closed"
    /\ NonEmptySelection

\* C30: a pass that sets isGeneratingPreview clears it in the end, also when a
\* fetch fails: the failure text is never on the panes with the flag set, and
\* an invocation with a non-empty selection that finds the flag clear runs
C30_FlagIsClearedInTheEnd ==
    /\ isGeneratingPreview ~> ~isGeneratingPreview
    /\ [](panes.kind = "failed" => ~isGeneratingPreview)
    /\ [][AcceptableInvocation => (isGeneratingPreview' \/ panes'.kind = "slides")]_vars

\* a pass has failed, the flag is clear, and the next invocation is pending
C30_Witness ==
    /\ panes.kind = "failed"
    /\ ~isGeneratingPreview
    /\ RunningPasses = {}
    /\ NonEmptySelection
    /\ debouncePending


----------------------------------------------------------------------------
(* Specification of a file slide: the diff of a file is drawn, parsed as   *)
(* the modal does, and generateFileSlide renders its slide.                *)

\* the largest number of lines of the hunk of the file
MaxSlideDiffLines == 4

\* one hunk of added lines, empty added lines and unchanged lines
SlideDiffKinds == {"add", "addBlank", "ctx"}
SlideDiffSeqs ==
    {<<"hunk">> \o body :
        body \in {b \in UNION {[1..n -> SlideDiffKinds] : n \in 1..MaxSlideDiffLines} :
                     \E i \in 1..Len(b) : b[i] = "add"}}

\* the diff of the file as the modal builds it from the parsed hunks
SlideDiff(hs) ==
    [path |-> <<"s", "r", "c", "/", "a", ".", "t", "s">>, hunks |-> hs,
        newContent |-> NullString,
     language |-> <<"t", "y", "p", "e", "s", "c", "r", "i", "p", "t">>]

InitFileSlide ==
    /\ pc = "fileSlideInput"
    /\ diffItems \in SlideDiffSeqs
    /\ diffText = GitDiffText(diffItems, TRUE, TRUE)
    /\ hunks = <<>>
    /\ includeRemoved = FALSE
    /\ content = <<>>
    /\ addedLines = <<>>
    /\ formatOptions \in {createDefaultFormatOptions,
                          [createDefaultFormatOptions EXCEPT !.highlightMode = "all"]}
    /\ commits = <<CommitAt(1)>>
    /\ fileDiffs = <<>>
    /\ markdown = <<>>
    /\ IdleFence /\ IdleTemplate /\ IdleMessage /\ IdleUtility /\ IdleApp

\* generatePreview builds the diff of the file: hunks: parseDiffHunks(diffOutput)
BuildFileDiff ==
    /\ pc = "fileSlideInput"
    /\ hunks' = parseDiffHunks(diffText)
    /\ pc' = "fileSlideParsed"
    /\ UNCHANGED <<diffItems, diffText, includeRemoved, content, addedLines>>
    /\ UNCHANGED notDiffVars

\* the slide of the file, as generateFlatSlides formats it
GenerateFileSlide ==
    /\ pc = "fileSlideParsed"
    /\ markdown' = formatSlide(generateFileSlide(commits[1], SlideDiff(hunks),
                                                 <<SlideDiff(hunks)>>, formatOptions))
    /\ pc' = "fileSlideGenerated"
    /\ UNCHANGED <<formatOptions, commits, fileDiffs, notGeneratorVars>>

NextFileSlide == BuildFileDiff \/ GenerateFileSlide
SpecFileSlide == InitFileSlide /\ [][NextFileSlide]_vars

----------------------------------------------------------------------------
(* Claim about the code fence of a file slide, checked under SpecFileSlide *)

IsFenceLine(line) == StartsWith(line, <<"BT", "BT", "BT">>)

\* the lines of the slide from its opening fence on
RECURSIVE FromFence(_)
FromFence(lines) ==
    IF Len(lines) = 0 \/ IsFenceLine(lines[1]) THEN lines ELSE FromFence(Tail(lines))

\* the lines up to the closing fence
RECURSIVE UpToFence(_)
UpToFence(lines) ==
    IF Len(lines) = 0 \/ IsFenceLine(lines[1]) THEN <<>>
    ELSE <<lines[1]>> \o UpToFence(Tail(lines))

FenceLine == FromFence(SplitLines(markdown))[1]
FencedBody == UpToFence(Tail(FromFence(SplitLines(markdown))))

\* the line numbers that a token "n" or "n-m" of the annotation covers
TokenLines(token) ==
    LET ends == SplitOn(token, <<"-">>)
    IN ParseInt(ends[1])..ParseInt(ends[Len(ends)])

\* the line numbers covered by the annotation [..] of the opening fence
AnnotatedLines ==
    IF ~Contains(FenceLine, <<"[">>) THEN {}
    ELSE LET inner == Slice(FenceLine, IndexOf(FenceLine, <<"[">>) + 1,
                            IndexOf(FenceLine, <<"]">>))
             tokens == SplitOn(inner, HighlightSeparatorOf(formatOptions.highlightMode))
         IN UNION {TokenLines(tokens[i]) : i \in 1..Len(tokens)}

\* the lines of the hunk, in the order of the diff
SlideBodyKinds == Tail(diffItems)

\* C29: in the markdown of a file slide with the default template and
\* diff-extracted display, every line number the annotation of the fence
\* covers is a line of the fenced body, and that line is an added line of the
\* diff: the fenced body holds the lines of the diff, none added, dropped or
\* shifted
C29_HighlightsMatchFencedBody ==
    pc = "fileSlideGenerated" =>
        /\ Len(FencedBody) = Len(SlideBodyKinds)
        /\ \A k \in AnnotatedLines :
               /\ k \in 1..Len(FencedBody)
               /\ SlideBodyKinds[k] \in {"add", "addBlank"}
               /\ Trim(FencedBody[k]) = (IF SlideBodyKinds[k] = "add" THEN <<"a">> ELSE <<>>)

====
